---- MODULE Spec2Model ----
(***************************************************************************)
(* Broker dashboard core: rule engine, evaluator, notification differ,     *)
(* action deriver and action-state overlay.                                *)
(*                                                                         *)
(* Instants are milliseconds counted from the midnight that starts day 0.  *)
(* An ISO string (Date.prototype.toISOString) is the tuple of its          *)
(* fixed-width fields <<day, hh, mm, ss, mmm>>; comparing two such strings *)
(* with < / >= is the lexicographic comparison of the fields.  <<>> is a   *)
(* missing or empty string, <<"not-a-date">> a string Date.parse rejects.  *)
(***************************************************************************)
EXTENDS Integers, Sequences, FiniteSets, TLC

VARIABLES
    load,            \* SpecEval: the raw Load under evaluation
    now,             \* SpecEval: the evaluation instant (ms)
    evaluated,       \* SpecEval: evaluateLoad(load, now), or NoResult
    derivedOne,      \* SpecEval: deriveActions over the load's dashboard input
    pc,              \* position of the pipeline / which call was made last
    deriveLoads,     \* SpecDerive: the ActionDeriveLoad[] argument
    deriveNowISO,    \* SpecDerive: the nowISO argument
    deriveOut,       \* SpecDerive: the BrokerAction[] returned
    prevMap,         \* differ: the SnapshotMap passed as prev to the last call
    current,         \* differ: the EvaluatedLoad[] passed to the last call
    prevCurrent,     \* differ: the EvaluatedLoad[] of the call before the last
    codeChangeOpt,   \* differ: options.notifyOnCodeChange of the last call
    notifications,   \* differ: notifications returned by the last call
    snapshots,       \* differ: snapshotsRef.current (the map returned last)
    seenBefore,      \* differ: the load ids given to some call before the last one
    actionState,     \* localStorage brokerSoftware.actionState.v1
    clock,           \* wall clock (ms)
    ticks,           \* number of clock advances so far
    derived,         \* overlay: the derived actions of the last overlay call
    overlayNowISO,   \* overlay: the nowISO of the last overlay call
    stateBefore,     \* overlay: the persisted map read by the last overlay call
    actions,         \* overlay: the actions returned by the last overlay call
    returnedState,   \* overlay: the state returned by the last overlay call; SpecShared:
                     \* the map the last saveActionState call was given
    doneSince,       \* ids marked DONE and untouched/derived ever since -> entry written
    snoozedAt,       \* ids snoozed and untouched/derived ever since -> instant of the snooze
    prunedMarks,     \* SpecSearch: id -> status of the entry an overlay call pruned, kept until
                     \* a mutator is called on the id
    batchLoads,      \* SpecBatch: the Load[] given to evaluateAllLoads
    batchNow,        \* SpecBatch: the evaluation instant (ms)
    evaluatedAll,    \* SpecBatch: what the last evaluateAllLoads call returned
    evaluatedPrev,   \* SpecBatch: what the evaluateAllLoads call before it returned
    sortIn,          \* SpecBatch: the EvaluatedLoad[] given to sortNeedsAttention
    sortOut,         \* SpecBatch: the EvaluatedLoad[] it returned
    deadlines,       \* SpecBatch: relevantDeadlineMs of each element of sortOut
    storageItems,    \* SpecStorage: localStorage, key -> raw string or null
    callName,        \* SpecStorage: the store function called last
    callReadThrows,  \* SpecStorage: getItem threw during that call
    callWriteThrows, \* SpecStorage: setItem threw during that call
    callThrew,       \* SpecStorage: the call propagated an exception to its caller
    callValue,       \* SpecStorage: what the call returned
    callArg,         \* SpecStorage: the action id or load id the call was given, or ""
    search,          \* SpecSearch: the dashboard's search text, as characters
    sessions         \* SpecShared: per browser session, the store call it is inside

vars == <<load, now, evaluated, derivedOne, pc, deriveLoads, deriveNowISO, deriveOut,
          prevMap, current, prevCurrent, codeChangeOpt, notifications, snapshots,
          seenBefore, actionState, clock, ticks, derived, overlayNowISO, stateBefore, actions,
          returnedState, doneSince, snoozedAt, prunedMarks, batchLoads, batchNow, evaluatedAll,
          evaluatedPrev, sortIn, sortOut, deadlines, storageItems, callName,
          callReadThrows, callWriteThrows, callThrew, callValue, callArg, search,
          sessions>>

evalVars == <<load, now, evaluated, derivedOne>>
deriveVars == <<deriveLoads, deriveNowISO, deriveOut>>
diffVars == <<prevMap, current, prevCurrent, codeChangeOpt, notifications, snapshots,
              seenBefore>>
storeVars == <<actionState, clock, ticks, derived, overlayNowISO, stateBefore, actions,
               returnedState, doneSince, snoozedAt, prunedMarks>>
batchVars == <<batchLoads, batchNow, evaluatedAll, evaluatedPrev, sortIn, sortOut, deadlines>>
storageVars == <<storageItems, callName, callReadThrows, callWriteThrows, callThrew, callValue,
                 callArg>>
searchVars == <<search, sessions>>

-----------------------------------------------------------------------------
(* Generic helpers *)

Range(s) == {s[i] : i \in DOMAIN s}

Min(a, b) == IF a <= b THEN a ELSE b

\* index of the first element of s satisfying Test, 0 if none (Array.prototype.find)
FindIdx(s, Test(_)) ==
    IF \E i \in DOMAIN s : Test(s[i])
    THEN CHOOSE i \in DOMAIN s : Test(s[i]) /\ \A j \in 1..(i - 1) : ~Test(s[j])
    ELSE 0

\* x put into the sorted sequence s before the first element it must precede
InsertStable(s, x, Less(_, _)) ==
    LET p == IF \E i \in DOMAIN s : Less(x, s[i])
             THEN CHOOSE i \in DOMAIN s : Less(x, s[i]) /\ \A j \in 1..(i - 1) : ~Less(x, s[j])
             ELSE Len(s) + 1
    IN  SubSeq(s, 1, p - 1) \o <<x>> \o SubSeq(s, p, Len(s))

\* Array.prototype.sort with a consistent comparator: a stable sort of a copy
StableSort(s, Less(_, _)) ==
    LET sorted[n \in 0..Len(s)] ==
            IF n = 0 THEN <<>> ELSE InsertStable(sorted[n - 1], s[n], Less)
    IN  sorted[Len(s)]

-----------------------------------------------------------------------------
(* Time and ISO strings *)

NoISO == <<>>
BadISO == <<"not-a-date">>
INF == 2000000000

\* Date.prototype.toISOString of the instant t
toISOString(t) ==
    << t \div 86400000, (t \div 3600000) % 24, (t \div 60000) % 60,
       (t \div 1000) % 60, t % 1000 >>

IsIso(s) == Len(s) = 5

\* Date.parse: the instant of a well-formed ISO string, NaN (here INF + 1) otherwise
DateParse(iso) ==
    IF IsIso(iso)
    THEN iso[1] * 86400000 + iso[2] * 3600000 + iso[3] * 60000 + iso[4] * 1000 + iso[5]
    ELSE INF + 1

RECURSIVE LexLess(_, _)
\* a < b on strings, compared field by field from the left
LexLess(a, b) ==
    IF b = <<>> THEN FALSE
    ELSE IF a = <<>> THEN TRUE
    ELSE IF a[1] # b[1] THEN a[1] < b[1]
    ELSE LexLess(Tail(a), Tail(b))

\* a >= b on ISO strings
StrGE(a, b) == ~LexLess(a, b)

MINUTE == 60000

\* Number.isFinite(Date.parse(iso)) ? ms : +Infinity.  INF stands for +Infinity: it
\* exceeds every instant of the model by more than any window length.
parseISOToMs(iso) ==
    LET ms == DateParse(iso) IN IF ms <= INF THEN ms ELSE INF

hours(n) == n * 60 * MINUTE

isLateAtEnd(nowMs, windowEndISO) == nowMs >= parseISOToMs(windowEndISO)

isLate(nowMs, windowEndISO) == nowMs > parseISOToMs(windowEndISO)

startsWithinStrictly(nowMs, windowStartISO, withinMs) ==
    LET startMs == parseISOToMs(windowStartISO) IN
    IF nowMs >= startMs THEN FALSE
    ELSE startMs - nowMs < withinMs

startsWithin(nowMs, windowStartISO, withinMs) ==
    LET startMs == parseISOToMs(windowStartISO) IN
    IF nowMs >= startMs THEN FALSE
    ELSE startMs - nowMs <= withinMs

-----------------------------------------------------------------------------
(* Rule engine (packages/shared/src/engine/rules.ts) *)

NULL == -1          \* lastGpsMinutesAgo: null

SCORE_NO_GPS == 1000
SCORE_PICKUP_LATE == 950
SCORE_DELIVERY_LATE == 900
SCORE_GPS_STALE_RISK == 850
SCORE_GPS_STALE_WATCH == 450
SCORE_PICKUP_WINDOW_SOON == 350
SCORE_DELIVERY_WINDOW_SOON == 300

Exc(code, severity, status, title, detail, nextAction, score) ==
    [code |-> code, severity |-> severity, status |-> status, title |-> title,
     detail |-> detail, nextAction |-> nextAction, score |-> score]

\* Each rule returns the sequence of the exceptions it raises: <<>> for null.
ruleNoGps(l) ==
    IF l.lastGpsMinutesAgo # NULL THEN <<>>
    ELSE << Exc("NO_GPS", "risk", "red", "No GPS",
                <<"No GPS data received for this load.", <<>> >>,
                "Contact driver/carrier to restore tracking immediately.",
                SCORE_NO_GPS) >>

ruleGpsStaleRiskAt120(l) ==
    LET m == l.lastGpsMinutesAgo IN
    IF m = NULL THEN <<>>
    ELSE IF m >= 60 /\ m < 120
    THEN << Exc("GPS_STALE", "watch", "yellow", "GPS stale",
                <<"GPS last updated minutes ago.", <<m>> >>,
                "Ping driver/carrier for a fresh location update.",
                SCORE_GPS_STALE_WATCH) >>
    ELSE IF m >= 120
    THEN << Exc("GPS_STALE", "risk", "red", "GPS very stale",
                <<"GPS last updated minutes ago.", <<m>> >>,
                "Call driver/carrier - confirm location and ETA now.",
                SCORE_GPS_STALE_RISK) >>
    ELSE <<>>

ruleGpsStale(l) ==
    LET m == l.lastGpsMinutesAgo IN
    IF m = NULL THEN <<>>
    ELSE IF m >= 60 /\ m <= 120
    THEN << Exc("GPS_STALE", "watch", "yellow", "GPS stale",
                <<"GPS last updated minutes ago.", <<m>> >>,
                "Ping driver/carrier for a fresh location update.",
                SCORE_GPS_STALE_WATCH) >>
    ELSE IF m > 120
    THEN << Exc("GPS_STALE", "risk", "red", "GPS very stale",
                <<"GPS last updated minutes ago.", <<m>> >>,
                "Call driver/carrier - confirm location and ETA now.",
                SCORE_GPS_STALE_RISK) >>
    ELSE <<>>

rulePickupLate(l, nowMs) ==
    IF l.pickupWindowEndISO = NoISO THEN <<>>
    ELSE IF ~isLate(nowMs, l.pickupWindowEndISO) THEN <<>>
    ELSE << Exc("PICKUP_LATE", "risk", "red", "Pickup late",
                <<"Pickup window ended at", l.pickupWindowEndISO>>,
                "Call shipper + carrier to confirm pickup status and recovery plan.",
                SCORE_PICKUP_LATE) >>

ruleDeliveryLate(l, nowMs) ==
    IF l.deliveryWindowEndISO = NoISO THEN <<>>
    ELSE IF ~isLate(nowMs, l.deliveryWindowEndISO) THEN <<>>
    ELSE << Exc("DELIVERY_LATE", "risk", "red", "Delivery late",
                <<"Delivery window ended at", l.deliveryWindowEndISO>>,
                "Call consignee + carrier to confirm delivery status and update customer.",
                SCORE_DELIVERY_LATE) >>

rulePickupWindowSoon(l, nowMs) ==
    IF l.pickupWindowEndISO # NoISO /\ isLate(nowMs, l.pickupWindowEndISO) THEN <<>>
    ELSE IF l.pickupWindowStartISO = NoISO THEN <<>>
    ELSE IF ~startsWithin(nowMs, l.pickupWindowStartISO, hours(2)) THEN <<>>
    ELSE << Exc("PICKUP_WINDOW_SOON", "watch", "yellow", "Pickup window soon",
                <<"Pickup window starts at", l.pickupWindowStartISO>>,
                "Confirm driver check-in and pickup readiness.",
                SCORE_PICKUP_WINDOW_SOON) >>

ruleDeliveryWindowSoon(l, nowMs) ==
    IF l.deliveryWindowEndISO # NoISO /\ isLate(nowMs, l.deliveryWindowEndISO) THEN <<>>
    ELSE IF l.deliveryWindowStartISO = NoISO THEN <<>>
    ELSE IF ~startsWithin(nowMs, l.deliveryWindowStartISO, hours(4)) THEN <<>>
    ELSE << Exc("DELIVERY_WINDOW_SOON", "watch", "yellow", "Delivery window soon",
                <<"Delivery window starts at", l.deliveryWindowStartISO>>,
                "Confirm ETA and communicate delivery plan if needed.",
                SCORE_DELIVERY_WINDOW_SOON) >>

evaluateRules(l, nowMs) ==
    ruleNoGps(l) \o ruleGpsStale(l) \o rulePickupLate(l, nowMs) \o ruleDeliveryLate(l, nowMs)
        \o rulePickupWindowSoon(l, nowMs) \o ruleDeliveryWindowSoon(l, nowMs)

-----------------------------------------------------------------------------
(* Evaluator (packages/shared/src/engine/evaluate.ts) *)

\* The exception codes in ascending string order; a < b on codes is a smaller index.
CodeOrder ==
    << "DELIVERY_LATE", "DELIVERY_WINDOW_SOON", "GPS_STALE", "GPS_STALE_RED", "NO_GPS",
       "OTHER", "PICKUP_LATE", "PICKUP_WINDOW_SOON" >>

CodeIdx(c) == CHOOSE i \in DOMAIN CodeOrder : CodeOrder[i] = c

CodeLess(a, b) == CodeIdx(a) < CodeIdx(b)

computedStatusYellowFirst(exceptions) ==
    IF \E i \in DOMAIN exceptions : exceptions[i].status = "yellow" THEN "yellow"
    ELSE IF \E i \in DOMAIN exceptions : exceptions[i].status = "red" THEN "red"
    ELSE "green"

computedStatusFromExceptions(exceptions) ==
    IF \E i \in DOMAIN exceptions : exceptions[i].status = "red" THEN "red"
    ELSE IF \E i \in DOMAIN exceptions : exceptions[i].status = "yellow" THEN "yellow"
    ELSE "green"

severityRank(sev) == IF sev = "risk" THEN 2 ELSE 1

ExceptionBeforeNoScore(a, b) ==
    LET sr == severityRank(b.severity) - severityRank(a.severity) IN
    IF sr # 0 THEN sr < 0
    ELSE CodeLess(a.code, b.code)

ExceptionBeforeLowScoreFirst(a, b) ==
    LET sr == severityRank(b.severity) - severityRank(a.severity) IN
    IF sr # 0 THEN sr < 0
    ELSE IF b.score # a.score THEN a.score - b.score < 0
    ELSE CodeLess(a.code, b.code)

\* the comparator of sortExceptionsDeterministic returns a negative number
ExceptionBefore(a, b) ==
    LET sr == severityRank(b.severity) - severityRank(a.severity) IN
    IF sr # 0 THEN sr < 0
    ELSE IF b.score # a.score THEN b.score - a.score < 0
    ELSE CodeLess(a.code, b.code)

sortExceptionsDeterministic(exceptions) == StableSort(exceptions, ExceptionBefore)

NoText == <<>>      \* computedRiskReason: undefined

evaluateLoad(l, nowMs) ==
    LET exceptions == sortExceptionsDeterministic(evaluateRules(l, nowMs))
        computedStatus == computedStatusFromExceptions(exceptions)
    IN  [ id |-> l.id,
          load |-> l,
          computedStatus |-> computedStatus,
          computedRiskReason |->
              IF computedStatus = "green" THEN NoText
              ELSE IF exceptions # <<>> THEN exceptions[1].detail
              ELSE <<"Needs attention.", <<>> >>,
          computedNextAction |->
              IF computedStatus = "green" THEN "No action required."
              ELSE IF exceptions # <<>> THEN exceptions[1].nextAction
              ELSE "Review load.",
          exceptions |-> exceptions ]

\* evaluation that gives up at the first load with an unparsable window
evaluateAllLoadsUntilBadWindow(ls, nowMs) ==
    LET bad == {i \in DOMAIN ls :
                   BadISO \in {ls[i].pickupWindowStartISO, ls[i].pickupWindowEndISO,
                               ls[i].deliveryWindowStartISO, ls[i].deliveryWindowEndISO}}
        n == IF bad = {} THEN Len(ls) ELSE (CHOOSE i \in bad : \A j \in bad : i <= j) - 1
    IN  [i \in 1..n |-> evaluateLoad(ls[i], nowMs)]

evaluateAllLoads(ls, nowMs) == [i \in DOMAIN ls |-> evaluateLoad(ls[i], nowMs)]

-----------------------------------------------------------------------------
(* Attention sorter (packages/shared/src/engine/sort.ts) *)

\* The load ids in ascending string order
IdOrder == << "L1", "L2", "L3" >>

IdIdx(id) == CHOOSE i \in DOMAIN IdOrder : IdOrder[i] = id

IdLess(a, b) == IdIdx(a) < IdIdx(b)

parseISOToMsOrZero(iso) ==
    IF iso = NoISO THEN 0
    ELSE LET ms == DateParse(iso) IN IF ms <= INF THEN ms ELSE 0

parseISOToMsOrInf(iso) ==
    IF iso = NoISO THEN INF
    ELSE LET ms == DateParse(iso) IN IF ms <= INF THEN ms ELSE INF

statusRank(status) ==
    IF status = "red" THEN 0 ELSE IF status = "yellow" THEN 1 ELSE 2

\* sort.ts pickPrimaryException: element 0 of the exceptions sorted by severity, score, code
sorterPrimaryException(e) == StableSort(e.exceptions, ExceptionBefore)

topScoreWithinStatus(e) ==
    LET targetStatus == e.computedStatus
        matching == {i \in DOMAIN e.exceptions : e.exceptions[i].status = targetStatus}
    IN  IF targetStatus # "red" /\ targetStatus # "yellow" THEN -1
        ELSE IF matching = {} THEN -1
        ELSE LET top == CHOOSE i \in matching :
                            \A j \in matching : e.exceptions[j].score <= e.exceptions[i].score
             IN  IF e.exceptions[top].score > -1 THEN e.exceptions[top].score ELSE -1

relevantDeadlineMs(e) ==
    LET sorted == sorterPrimaryException(e) IN
    IF sorted = <<>> THEN INF
    ELSE LET code == sorted[1].code IN
         IF code = "PICKUP_LATE" THEN parseISOToMsOrInf(e.load.pickupWindowEndISO)
         ELSE IF code = "PICKUP_WINDOW_SOON" THEN parseISOToMsOrInf(e.load.pickupWindowStartISO)
         ELSE IF code = "DELIVERY_LATE" THEN parseISOToMsOrInf(e.load.deliveryWindowEndISO)
         ELSE IF code = "DELIVERY_WINDOW_SOON"
         THEN parseISOToMsOrInf(e.load.deliveryWindowStartISO)
         ELSE IF code \in {"NO_GPS", "GPS_STALE"}
         THEN Min(Min(parseISOToMsOrInf(e.load.pickupWindowStartISO),
                      parseISOToMsOrInf(e.load.pickupWindowEndISO)),
                  Min(parseISOToMsOrInf(e.load.deliveryWindowStartISO),
                      parseISOToMsOrInf(e.load.deliveryWindowEndISO)))
         ELSE INF

AttentionBeforeNoId(a, b) ==
    LET ar == statusRank(a.computedStatus)
        br == statusRank(b.computedStatus)
        as == topScoreWithinStatus(a)
        bs == topScoreWithinStatus(b)
        ad == relevantDeadlineMs(a)
        bd == relevantDeadlineMs(b)
    IN  IF ar # br THEN ar - br < 0
        ELSE IF as # bs THEN bs - as < 0
        ELSE IF ad # bd THEN ad - bd < 0
        ELSE FALSE

\* the comparator of sortNeedsAttention returns a negative number
AttentionBefore(a, b) ==
    LET ar == statusRank(a.computedStatus)
        br == statusRank(b.computedStatus)
        as == topScoreWithinStatus(a)
        bs == topScoreWithinStatus(b)
        ad == relevantDeadlineMs(a)
        bd == relevantDeadlineMs(b)
    IN  IF ar # br THEN ar - br < 0
        ELSE IF as # bs THEN bs - as < 0
        ELSE IF ad # bd THEN ad - bd < 0
        ELSE IdLess(a.id, b.id)

sortNeedsAttention(ls) == StableSort(ls, AttentionBefore)

-----------------------------------------------------------------------------
(* Action deriver (packages/shared/src/actions/types.ts) *)

mkId(loadId, ruleId) == loadId \o "__" \o ruleId

\* an optional string as its characters: undefined, or the string given
Undefined == [defined |-> FALSE, chars |-> <<>>]
Str(chars) == [defined |-> TRUE, chars |-> chars]

Digits == {"0", "1", "2", "3", "4", "5", "6", "7", "8", "9"}

\* normalizePhone: undefined for a falsy raw; else trim and drop all but digits and "+",
\* undefined when nothing is left
normalizePhone(raw) ==
    IF ~raw.defined \/ Len(raw.chars) = 0 THEN Undefined
    ELSE LET cleaned == SelectSeq(raw.chars, LAMBDA c : c \in Digits \cup {"+"}) IN
         IF Len(cleaned) > 0 THEN Str(cleaned) ELSE Undefined

telHref(phone) ==
    LET p == normalizePhone(phone) IN
    IF p.defined THEN Str(<<"tel:">> \o p.chars) ELSE Undefined

\* encodeURIComponent of a rule's message body
encodeURIComponent(body) == "uri(" \o body \o ")"

\* smsHref with a body (every rule passes one)
smsHref(phone, body) ==
    LET p == normalizePhone(phone) IN
    IF p.defined THEN Str(<<"sms:">> \o p.chars \o <<"?&body=", encodeURIComponent(body)>>)
    ELSE Undefined

\* a ?? b : b only when a is undefined
Coalesce(a, b) == IF a.defined THEN a ELSE b

\* the message body of the TEXT rules
RuleBody(ruleId) ==
    CASE ruleId = "GPS_STALE_TEXT" -> "Please send current location and ETA. Thanks."
      [] ruleId = "DELIVERY_ETA_TEXT" -> "Please confirm updated delivery ETA. Thanks."
      [] ruleId = "DELIVERY_WINDOW_TEXT" ->
             "Delivery window is coming up-please confirm ETA. Thanks."
      [] OTHER -> ""

\* rule.href(ctx): tel: for the CALL rules, sms: with the rule's body for the TEXT rules
RuleHref(rule, carrierPhone, driverPhone) ==
    IF rule.actionType = "CALL" THEN telHref(Coalesce(carrierPhone, driverPhone))
    ELSE smsHref(Coalesce(carrierPhone, driverPhone), RuleBody(rule.ruleId))

Rule(ruleId, priority, actionType) ==
    [ruleId |-> ruleId, priority |-> priority, actionType |-> actionType]

RULES_NO_GPS_CALL == Rule("NO_GPS_CALL", 1, "CALL")
RULES_GPS_STALE_TEXT == Rule("GPS_STALE_TEXT", 1, "TEXT")
RULES_PICKUP_STATUS_CALL == Rule("PICKUP_STATUS_CALL", 1, "CALL")
RULES_PICKUP_WINDOW_CALL == Rule("PICKUP_WINDOW_CALL", 2, "CALL")
RULES_DELIVERY_ETA_TEXT == Rule("DELIVERY_ETA_TEXT", 1, "TEXT")
RULES_DELIVERY_WINDOW_TEXT == Rule("DELIVERY_WINDOW_TEXT", 2, "TEXT")

EXCEPTION_PRECEDENCE_PickupFirst ==
    << [codes |-> {"PICKUP_LATE"}, rule |-> RULES_PICKUP_STATUS_CALL],
       [codes |-> {"NO_GPS"}, rule |-> RULES_NO_GPS_CALL],
       [codes |-> {"GPS_STALE_RED"}, rule |-> RULES_GPS_STALE_TEXT],
       [codes |-> {"DELIVERY_LATE"}, rule |-> RULES_DELIVERY_ETA_TEXT],
       [codes |-> {"PICKUP_WINDOW_SOON"}, rule |-> RULES_PICKUP_WINDOW_CALL],
       [codes |-> {"DELIVERY_WINDOW_SOON"}, rule |-> RULES_DELIVERY_WINDOW_TEXT] >>

EXCEPTION_PRECEDENCE ==
    << [codes |-> {"NO_GPS"}, rule |-> RULES_NO_GPS_CALL],
       [codes |-> {"GPS_STALE_RED"}, rule |-> RULES_GPS_STALE_TEXT],
       [codes |-> {"PICKUP_LATE"}, rule |-> RULES_PICKUP_STATUS_CALL],
       [codes |-> {"DELIVERY_LATE"}, rule |-> RULES_DELIVERY_ETA_TEXT],
       [codes |-> {"PICKUP_WINDOW_SOON"}, rule |-> RULES_PICKUP_WINDOW_CALL],
       [codes |-> {"DELIVERY_WINDOW_SOON"}, rule |-> RULES_DELIVERY_WINDOW_TEXT] >>

\* the entry of the load's first exception that has one, instead of the first entry
PickedEntryByExceptionOrder(exceptions) ==
    LET InTable(e) == \E k \in DOMAIN EXCEPTION_PRECEDENCE : e.code \in EXCEPTION_PRECEDENCE[k].codes
        j == FindIdx(exceptions, InTable)
    IN  IF j = 0 THEN 0
        ELSE CHOOSE k \in DOMAIN EXCEPTION_PRECEDENCE :
                 exceptions[j].code \in EXCEPTION_PRECEDENCE[k].codes

\* index of the first precedence entry one of whose codes occurs among the exceptions, 0 if none
PickedEntry(exceptions) ==
    LET Matches(p) == \E i \in DOMAIN exceptions : exceptions[i].code \in p.codes
    IN  FindIdx(EXCEPTION_PRECEDENCE, Matches)

\* the body of deriveActions' loop for one load: the actions pushed (none or one)
deriveForLoad(l, nowISO) ==
    IF Len(l.exceptions) = 0 THEN <<>>
    ELSE LET k == PickedEntry(l.exceptions) IN
         IF k = 0 THEN <<>>
         ELSE LET rule == EXCEPTION_PRECEDENCE[k].rule
                  InCodes(e) == e.code \in EXCEPTION_PRECEDENCE[k].codes
                  ex == l.exceptions[FindIdx(l.exceptions, InCodes)]
              IN  << [ id |-> mkId(l.loadId, rule.ruleId),
                       loadId |-> l.loadId,
                       actionType |-> rule.actionType,
                       href |-> RuleHref(rule, l.carrierPhone, l.driverPhone),
                       priority |-> rule.priority,
                       dueAtISO |-> ex.dueAtISO,
                       createdAtISO |-> nowISO,
                       status |-> "OPEN",
                       ruleId |-> rule.ruleId ] >>

ActionBeforeNoDue(a, b) ==
    IF a.priority # b.priority THEN a.priority - b.priority < 0
    ELSE LexLess(a.createdAtISO, b.createdAtISO)

\* the comparator of deriveActions' final sort returns a negative number
ActionBefore(a, b) ==
    IF a.priority # b.priority THEN a.priority - b.priority < 0
    ELSE IF a.dueAtISO # b.dueAtISO THEN LexLess(a.dueAtISO, b.dueAtISO)
    ELSE LexLess(a.createdAtISO, b.createdAtISO)

deriveActions(ls, nowISO) ==
    LET pushed[n \in 0..Len(ls)] ==
            IF n = 0 THEN <<>> ELSE pushed[n - 1] \o deriveForLoad(ls[n], nowISO)
    IN  StableSort(pushed[Len(ls)], ActionBefore)

-----------------------------------------------------------------------------
(* Dashboard glue (DashboardClient) *)

\* object[] branch: code = e.code, dueAtISO = none of the probed fields exists on an Exception
extractExceptionsForActions(e) ==
    [i \in DOMAIN e.exceptions |-> [code |-> e.exceptions[i].code, dueAtISO |-> NoISO]]

UpperCase ==
    << "A", "B", "C", "D", "E", "F", "G", "H", "I", "J", "K", "L", "M",
       "N", "O", "P", "Q", "R", "S", "T", "U", "V", "W", "X", "Y", "Z" >>
LowerCase ==
    << "a", "b", "c", "d", "e", "f", "g", "h", "i", "j", "k", "l", "m",
       "n", "o", "p", "q", "r", "s", "t", "u", "v", "w", "x", "y", "z" >>

\* String.prototype.toLowerCase, trim and includes on strings given as characters
toLowerCase(chars) ==
    [i \in DOMAIN chars |->
        IF \E k \in DOMAIN UpperCase : UpperCase[k] = chars[i]
        THEN LowerCase[CHOOSE k \in DOMAIN UpperCase : UpperCase[k] = chars[i]]
        ELSE chars[i]]

trim(chars) ==
    LET solid == {i \in DOMAIN chars : chars[i] # " "} IN
    IF solid = {} THEN <<>>
    ELSE SubSeq(chars, CHOOSE i \in solid : \A j \in solid : i <= j,
                       CHOOSE i \in solid : \A j \in solid : j <= i)

includes(hay, needle) ==
    \E i \in 1..(Len(hay) - Len(needle) + 1) : SubSeq(hay, i, i + Len(needle) - 1) = needle

\* [load.id, load.originCityState, load.destCityState, load.carrierName].join(" ")
haystackOf(l) ==
    CASE l.id = "L1" -> <<"L", "1", " ", "B", "o", "i", "s", "e", " ", "H", "a", "u", "l">>
      [] l.id = "L2" -> <<"L", "2", " ", "T", "a", "c", "o", "m", "a", " ", "S", "t", "a", "r">>
      [] OTHER -> <<>>

\* matchesSearch(load, q)
matchesSearch(l, q) ==
    LET s == toLowerCase(trim(q)) IN
    IF Len(s) = 0 THEN TRUE ELSE includes(toLowerCase(haystackOf(l)), s)

\* extractPhones: l.carrierPhone and l.driverPhone when they are strings
extractPhones(l) == [carrierPhone |-> l.carrierPhone, driverPhone |-> l.driverPhone]

needsAttention(evaluatedList) ==
    sortNeedsAttention(SelectSeq(evaluatedList,
                                 LAMBDA l : l.computedStatus \in {"red", "yellow"}))

\* the ActionDeriveLoad[] built in openActionsForQueue
actionInputs(evaluatedList) ==
    LET na == needsAttention(evaluatedList) IN
    [i \in DOMAIN na |->
        [ loadId |-> na[i].id,
          carrierPhone |-> extractPhones(na[i].load).carrierPhone,
          driverPhone |-> extractPhones(na[i].load).driverPhone,
          exceptions |-> extractExceptionsForActions(na[i]) ]]

-----------------------------------------------------------------------------
(* Notification differ (packages/shared/src/engine/notifications.ts) *)

EmptyMap == <<>>      \* {} : a map with no key

codesInExceptionOrder(e) == [i \in DOMAIN e.exceptions |-> e.exceptions[i].code]

stableCodes(e) ==
    StableSort([i \in DOMAIN e.exceptions |-> e.exceptions[i].code], CodeLess)

snapshotFromEvaluatedLoad(e) ==
    [status |-> e.computedStatus, exceptionCodes |-> stableCodes(e)]

isNonGreen(status) == status = "yellow" \/ status = "red"

\* prev[e.id]?.status : "undefined" when the map has no snapshot for the id
PrevStatusNoSnapshotIsGreen(prev, id) ==
    IF id \in DOMAIN prev THEN prev[id].status ELSE "green"

PrevStatus(prev, id) ==
    IF id \in DOMAIN prev THEN prev[id].status ELSE "undefined"

ShouldNotifyAnyChange(prev, next) ==
    IF prev = "undefined" THEN FALSE ELSE prev # next

shouldNotifyTransition(prev, next) ==
    IF prev = "undefined" THEN FALSE
    ELSE IF prev = "green" THEN isNonGreen(next)
    ELSE IF prev = "yellow" /\ next = "red" THEN TRUE
    ELSE FALSE

primarySeverity(e) == IF e.computedStatus = "red" THEN "risk" ELSE "watch"

makeNotificationId(loadId, createdAtISO, code) == <<loadId, code, createdAtISO>>

\* `${code}: ${reason}` for a load with a primary exception
oneLineMessage(e) ==
    << e.exceptions[1].code,
       IF e.computedRiskReason # NoText THEN e.computedRiskReason
       ELSE <<"Needs attention.", <<>> >> >>

codesEqualByLength(a, b) == Len(a) = Len(b)

\* codesEqual: same length and the same code at every index
codesEqual(a, b) ==
    IF Len(a) # Len(b) THEN FALSE
    ELSE \A i \in DOMAIN a : a[i] = b[i]

\* the notification both branches push; none when the load has no exception (code is null)
pushNotification(e, createdAtISO) ==
    IF e.exceptions = <<>> THEN <<>>
    ELSE << [ id |-> makeNotificationId(e.id, createdAtISO, e.exceptions[1].code),
              loadId |-> e.id,
              createdAtISO |-> createdAtISO,
              severity |-> primarySeverity(e),
              status |-> e.computedStatus,
              message |-> oneLineMessage(e),
              exceptionCode |-> e.exceptions[1].code,
              acked |-> FALSE ] >>

\* the body of diffNotifications' loop for one load: the notifications pushed
diffOne(prev, e, createdAtISO, notifyOnCodeChange) ==
    LET snap == snapshotFromEvaluatedLoad(e)
        prevStatus == PrevStatus(prev, e.id)
    IN  IF shouldNotifyTransition(prevStatus, snap.status) /\ isNonGreen(snap.status)
        THEN pushNotification(e, createdAtISO)
        ELSE IF /\ notifyOnCodeChange
                /\ e.id \in DOMAIN prev
                /\ isNonGreen(prev[e.id].status)
                /\ isNonGreen(snap.status)
                /\ ~codesEqual(prev[e.id].exceptionCodes, snap.exceptionCodes)
        THEN pushNotification(e, createdAtISO)
        ELSE <<>>

\* a map that keeps only the loads needing attention
nextSnapshotMapNonGreenOnly(cur) ==
    [id \in {cur[i].id : i \in {j \in DOMAIN cur : isNonGreen(cur[j].computedStatus)}} |->
        LET last == CHOOSE i \in DOMAIN cur :
                        cur[i].id = id /\ \A j \in DOMAIN cur : cur[j].id = id => j <= i
        IN  snapshotFromEvaluatedLoad(cur[last])]

\* next[e.id] = snap for every load in turn: the last load of an id wins
nextSnapshotMap(cur) ==
    [id \in {cur[i].id : i \in DOMAIN cur} |->
        LET last == CHOOSE i \in DOMAIN cur :
                        cur[i].id = id /\ \A j \in DOMAIN cur : cur[j].id = id => j <= i
        IN  snapshotFromEvaluatedLoad(cur[last])]

diffNotifications(prev, cur, createdAtISO, notifyOnCodeChange) ==
    LET pushed[n \in 0..Len(cur)] ==
            IF n = 0 THEN <<>>
            ELSE pushed[n - 1] \o diffOne(prev, cur[n], createdAtISO, notifyOnCodeChange)
    IN  [notifications |-> pushed[Len(cur)], next |-> nextSnapshotMap(cur)]

-----------------------------------------------------------------------------
(* Action state overlay (apps/web/lib/actionStateStore.ts) *)

Entry(status, snoozeUntilISO, updatedAtISO) ==
    [status |-> status, snoozeUntilISO |-> snoozeUntilISO, updatedAtISO |-> updatedAtISO]

\* state[id] = entry
Put(state, id, entry) ==
    [x \in DOMAIN state \cup {id} |-> IF x = id THEN entry ELSE state[x]]

SnoozeExpiredStrict(entry, nowISO) ==
    /\ entry.status = "SNOOZED"
    /\ entry.snoozeUntilISO # NoISO
    /\ LexLess(entry.snoozeUntilISO, nowISO)

SnoozeExpiredAtInstant(entry, nowISO) ==
    /\ entry.status = "SNOOZED"
    /\ entry.snoozeUntilISO # NoISO
    /\ nowISO = entry.snoozeUntilISO

\* entry.status === "SNOOZED" && until && nowISO >= until
SnoozeExpired(entry, nowISO) ==
    /\ entry.status = "SNOOZED"
    /\ entry.snoozeUntilISO # NoISO
    /\ StrGE(nowISO, entry.snoozeUntilISO)

PruneKeepAll(state, derivedActions) == state

PruneKeepDone(state, derivedActions) ==
    LET derivedIds == {derivedActions[i].id : i \in DOMAIN derivedActions} IN
    [id \in {x \in DOMAIN state : x \in derivedIds \/ state[x].status = "DONE"} |-> state[id]]

\* keep the entries whose id is derived this tick
Prune(state, derivedActions) ==
    LET derivedIds == {derivedActions[i].id : i \in DOMAIN derivedActions} IN
    [id \in DOMAIN state \cap derivedIds |-> state[id]]

OverlayStatusIgnoreDone(entry, nowISO) ==
    IF SnoozeExpired(entry, nowISO) \/ entry.status = "DONE" THEN "OPEN" ELSE entry.status

\* the status the overlay gives an action that has a persisted entry
OverlayStatus(entry, nowISO) ==
    IF SnoozeExpired(entry, nowISO) THEN "OPEN" ELSE entry.status

overlayActionStateStaleStatus(state, derivedActions, nowISO) ==
    LET pruned == Prune(state, derivedActions) IN
    [ actions |->
          [i \in DOMAIN derivedActions |->
              LET a == derivedActions[i] IN
              IF a.id \notin DOMAIN pruned THEN a
              ELSE [a EXCEPT !.status = pruned[a.id].status]],
      state |->
          [id \in DOMAIN pruned |->
              IF SnoozeExpired(pruned[id], nowISO)
              THEN Entry("OPEN", NoISO, nowISO)
              ELSE pruned[id]] ]

\* overlayActionState over the loaded map: prune, overlay each derived action, save
overlayActionState(state, derivedActions, nowISO) ==
    LET pruned == Prune(state, derivedActions) IN
    [ actions |->
          [i \in DOMAIN derivedActions |->
              LET a == derivedActions[i] IN
              IF a.id \notin DOMAIN pruned THEN a
              ELSE [a EXCEPT !.status = OverlayStatus(pruned[a.id], nowISO)]],
      state |->
          [id \in DOMAIN pruned |->
              IF SnoozeExpired(pruned[id], nowISO)
              THEN Entry("OPEN", NoISO, nowISO)
              ELSE pruned[id]] ]

setActionDone(state, actionId, nowISO) ==
    Put(state, actionId, Entry("DONE", NoISO, nowISO))

snoozeAction30mOnly(state, actionId, nowISO) ==
    Put(EmptyMap, actionId,
        Entry("SNOOZED", toISOString(DateParse(nowISO) + 30 * 60 * 1000), nowISO))

\* snoozeAction30m: state[actionId] = {SNOOZED, snoozeUntilISO = nowISO + 30 min, nowISO}
snoozeAction30m(state, actionId, nowISO) ==
    Put(state, actionId,
        Entry("SNOOZED", toISOString(DateParse(nowISO) + 30 * 60 * 1000), nowISO))

reopenAction(state, actionId, nowISO) ==
    Put(state, actionId, Entry("OPEN", NoISO, nowISO))

-----------------------------------------------------------------------------
(* localStorage and the functions that read and write it.  A call returns            *)
(* [threw, value, items]: whether it propagated an exception, what it returned, and   *)
(* the storage it left.                                                               *)

STORAGE_KEY == "broker.exceptionEngine.snapshots.v1"
ACTION_STATE_KEY == "brokerSoftware.actionState.v1"
CONTACT_LOG_KEY == "brokerSoftware.contactLog.v1"
NOTIFS_STORAGE_KEY == "broker.exceptionEngine.notifications.v1"

NoRaw == <<>>                   \* getItem: null
MalformedJson == <<"{oops">>    \* a string JSON.parse throws on

\* JSON.stringify of an object, of an array, of a number
stringifyObject(v) == <<"json", "object", v>>
stringifyArray(v) == <<"json", "array", v>>
stringifyNumber(v) == <<"json", "number", v>>

IsJson(raw) == Len(raw) = 3
JsonKind(raw) == raw[2]
JSONparse(raw) == raw[3]

Threw(items) == [threw |-> TRUE, value |-> <<>>, items |-> items]
Returned(v, items) == [threw |-> FALSE, value |-> v, items |-> items]

\* safeParse: {} for null, for a string JSON.parse throws on, for a non-object
safeParse(json) ==
    IF json = NoRaw THEN EmptyMap
    ELSE IF ~IsJson(json) THEN EmptyMap
    ELSE IF JsonKind(json) = "number" THEN EmptyMap
    ELSE JSONparse(json)

\* loadActionState: safeParse(window.localStorage.getItem(STORAGE_KEY)), getItem uncaught
loadActionState(items, readThrows) ==
    IF readThrows THEN Threw(items)
    ELSE Returned(safeParse(items[ACTION_STATE_KEY]), items)

\* saveActionState: window.localStorage.setItem(...), uncaught
saveActionState(items, map, writeThrows) ==
    IF writeThrows THEN Threw(items)
    ELSE Returned(<<>>, [items EXCEPT ![ACTION_STATE_KEY] = stringifyObject(map)])

\* overlayActionState(derived, nowISO) as exported: load, overlay, save
overlayActionStateCall(items, derivedActions, nowISO, readThrows, writeThrows) ==
    LET loaded == loadActionState(items, readThrows) IN
    IF loaded.threw THEN Threw(items)
    ELSE LET r == overlayActionState(loaded.value, derivedActions, nowISO)
             saved == saveActionState(items, r.state, writeThrows)
         IN  IF saved.threw THEN Threw(items) ELSE Returned(r, saved.items)

setActionDoneCall(items, actionId, nowISO, readThrows, writeThrows) ==
    LET loaded == loadActionState(items, readThrows) IN
    IF loaded.threw THEN Threw(items)
    ELSE saveActionState(items, setActionDone(loaded.value, actionId, nowISO), writeThrows)

snoozeAction30mCall(items, actionId, nowISO, readThrows, writeThrows) ==
    LET loaded == loadActionState(items, readThrows) IN
    IF loaded.threw THEN Threw(items)
    ELSE saveActionState(items, snoozeAction30m(loaded.value, actionId, nowISO), writeThrows)

reopenActionCall(items, actionId, nowISO, readThrows, writeThrows) ==
    LET loaded == loadActionState(items, readThrows) IN
    IF loaded.threw THEN Threw(items)
    ELSE saveActionState(items, reopenAction(loaded.value, actionId, nowISO), writeThrows)

\* safeParseArray: [] unless the string parses to an array
safeParseArray(json) ==
    IF json = NoRaw THEN <<>>
    ELSE IF ~IsJson(json) THEN <<>>
    ELSE IF JsonKind(json) = "array" THEN JSONparse(json)
    ELSE <<>>

loadContactLog(items, readThrows) ==
    IF readThrows THEN Threw(items)
    ELSE Returned(safeParseArray(items[CONTACT_LOG_KEY]), items)

saveContactLog(items, entries, writeThrows) ==
    IF writeThrows THEN Threw(items)
    ELSE Returned(<<>>, [items EXCEPT ![CONTACT_LOG_KEY] = stringifyArray(entries)])

CONTACT_LOG_CAP == 200

makeContactId(actionId, atISO) == <<actionId, atISO>>

addContactLogEntryAppend(items, actionId, loadId, method, atISO, readThrows, writeThrows) ==
    LET prev == loadContactLog(items, readThrows) IN
    IF prev.threw THEN Threw(items)
    ELSE LET entry == [ id |-> makeContactId(actionId, atISO), actionId |-> actionId,
                        loadId |-> loadId, method |-> method, atISO |-> atISO ]
             all == prev.value \o <<entry>>
             next == SubSeq(all, 1, Min(Len(all), CONTACT_LOG_CAP))
         IN  saveContactLog(items, next, writeThrows)

\* addContactLogEntry: the new entry first, the log cut to 200 entries
addContactLogEntry(items, actionId, loadId, method, atISO, readThrows, writeThrows) ==
    LET prev == loadContactLog(items, readThrows) IN
    IF prev.threw THEN Threw(items)
    ELSE LET entry == [ id |-> makeContactId(actionId, atISO), actionId |-> actionId,
                        loadId |-> loadId, method |-> method, atISO |-> atISO ]
             all == <<entry>> \o prev.value
             next == SubSeq(all, 1, Min(Len(all), CONTACT_LOG_CAP))
         IN  saveContactLog(items, next, writeThrows)

\* log.find(test): the first matching entry as a one-element sequence, <<>> for undefined
getLastContactForAction(items, actionId, readThrows) ==
    LET log == loadContactLog(items, readThrows) IN
    IF log.threw THEN Threw(items)
    ELSE LET found == SelectSeq(log.value, LAMBDA e : e.actionId = actionId) IN
         Returned(IF Len(found) = 0 THEN <<>> ELSE <<found[1]>>, items)

getLastContactForLoad(items, loadId, readThrows) ==
    LET log == loadContactLog(items, readThrows) IN
    IF log.threw THEN Threw(items)
    ELSE LET found == SelectSeq(log.value, LAMBDA e : e.loadId = loadId) IN
         Returned(IF Len(found) = 0 THEN <<>> ELSE <<found[1]>>, items)

\* loadSnapshots: everything inside try / catch
loadSnapshots(items, readThrows) ==
    IF readThrows THEN Returned(EmptyMap, items)
    ELSE LET raw == items[STORAGE_KEY] IN
         IF raw = NoRaw THEN Returned(EmptyMap, items)
         ELSE IF ~IsJson(raw) THEN Returned(EmptyMap, items)
         ELSE IF JsonKind(raw) = "number" THEN Returned(EmptyMap, items)
         ELSE Returned(JSONparse(raw), items)

\* saveSnapshots: setItem inside try / catch
saveSnapshots(items, snaps, writeThrows) ==
    IF writeThrows THEN Returned(<<>>, items)
    ELSE Returned(<<>>, [items EXCEPT ![STORAGE_KEY] = stringifyObject(snaps)])

\* the feed's loadJson(key, fallback): the fallback for null and inside catch
loadJson(items, key, fallback, readThrows) ==
    IF readThrows THEN Returned(fallback, items)
    ELSE LET raw == items[key] IN
         IF raw = NoRaw THEN Returned(fallback, items)
         ELSE IF ~IsJson(raw) THEN Returned(fallback, items)
         ELSE Returned(JSONparse(raw), items)

\* the feed's saveJson(key, value): setItem inside try / catch
saveJson(items, key, value, writeThrows) ==
    IF writeThrows THEN Returned(<<>>, items)
    ELSE Returned(<<>>, [items EXCEPT ![key] = stringifyArray(value)])

-----------------------------------------------------------------------------
(* Values of the variables a specification does not use *)

NoResult == <<>>

EvalIdle == load = NoResult /\ now = 0 /\ evaluated = NoResult /\ derivedOne = <<>>

DeriveIdle == deriveLoads = <<>> /\ deriveNowISO = NoISO /\ deriveOut = <<>>

DiffIdle ==
    /\ prevMap = EmptyMap /\ current = <<>> /\ prevCurrent = <<>>
    /\ codeChangeOpt = FALSE /\ notifications = <<>> /\ snapshots = EmptyMap
    /\ seenBefore = {}

SearchIdle == search = <<>> /\ sessions = <<>>

StoreIdle ==
    /\ actionState = EmptyMap /\ clock = 0 /\ ticks = 0 /\ derived = <<>>
    /\ overlayNowISO = NoISO /\ stateBefore = EmptyMap /\ actions = <<>>
    /\ returnedState = EmptyMap /\ doneSince = EmptyMap /\ snoozedAt = EmptyMap
    /\ prunedMarks = EmptyMap

BatchIdle ==
    /\ batchLoads = <<>> /\ batchNow = 0 /\ evaluatedAll = NoResult /\ evaluatedPrev = NoResult
    /\ sortIn = <<>> /\ sortOut = <<>> /\ deadlines = <<>>

StorageIdle ==
    /\ storageItems = <<>> /\ callName = "none" /\ callReadThrows = FALSE
    /\ callWriteThrows = FALSE /\ callThrew = FALSE /\ callValue = <<>>
    /\ callArg = ""

-----------------------------------------------------------------------------
(* SpecEval: one load through evaluateLoad and the dashboard's action derivation *)

\* the contacts of the first mock load
MockCarrierPhone == Str(<<"+", "1", "5", "0", "3", "5", "5", "5", "0", "1", "1", "1">>)
MockDriverPhone == Str(<<"+", "1", "5", "0", "3", "5", "5", "5", "0", "9", "1", "1">>)

Load(id, gps, ps, pe, ds, de) ==
    [ id |-> id, lastGpsMinutesAgo |-> gps,
      carrierPhone |-> MockCarrierPhone, driverPhone |-> MockDriverPhone,
      pickupWindowStartISO |-> ps, pickupWindowEndISO |-> pe,
      deliveryWindowStartISO |-> ds, deliveryWindowEndISO |-> de ]

\* the evaluation instants: 10:00:00.000 of day 0 and the millisecond after it
EvalBase == 10 * 60 * MINUTE
NowInputs == {EvalBase, EvalBase + 1}

GpsInputs == {NULL, 59, 60, 120, 121}

IsoInputs(instants) == {NoISO, BadISO} \cup {toISOString(t) : t \in instants}

PickupStartInputs ==
    IsoInputs({EvalBase, EvalBase + 1, EvalBase + hours(2), EvalBase + hours(2) + 2})
PickupEndInputs == IsoInputs({EvalBase - hours(2), EvalBase, EvalBase + hours(3)})
DeliveryStartInputs ==
    IsoInputs({EvalBase + 1, EvalBase + hours(4), EvalBase + hours(4) + 2})
DeliveryEndInputs == IsoInputs({EvalBase - 1, EvalBase, EvalBase + hours(5)})

LoadInputs ==
    { Load("L1", g, ps, pe, ds, de) :
        g \in GpsInputs, ps \in PickupStartInputs, pe \in PickupEndInputs,
        ds \in DeliveryStartInputs, de \in DeliveryEndInputs }

InitEval ==
    /\ pc = "loaded"
    /\ load \in LoadInputs
    /\ now \in NowInputs
    /\ evaluated = NoResult
    /\ derivedOne = <<>>
    /\ DeriveIdle /\ DiffIdle /\ StoreIdle /\ BatchIdle /\ StorageIdle /\ SearchIdle

\* evaluatedAll = evaluateAllLoads(loads, now), for the one load
Evaluate ==
    /\ pc = "loaded"
    /\ evaluated' = evaluateLoad(load, now)
    /\ pc' = "evaluated"
    /\ UNCHANGED <<load, now, derivedOne, deriveVars, diffVars, storeVars, batchVars, storageVars, searchVars>>

\* openActionsForQueue up to deriveActions: needs-attention filter, sort, extraction, derive
DeriveQueue ==
    /\ pc = "evaluated"
    /\ derivedOne' = deriveActions(actionInputs(<<evaluated>>), toISOString(now))
    /\ pc' = "derived"
    /\ UNCHANGED <<load, now, evaluated, deriveVars, diffVars, storeVars, batchVars, storageVars, searchVars>>

NextEval == Evaluate \/ DeriveQueue

SpecEval == InitEval /\ [][NextEval]_vars

-----------------------------------------------------------------------------
(* SpecDerive: deriveActions applied to bounded ActionDeriveLoad lists *)

MaxExc == 2         \* longest exception list of the first load

DeriveCodes ==
    { "NO_GPS", "GPS_STALE_RED", "PICKUP_LATE", "DELIVERY_LATE", "PICKUP_WINDOW_SOON",
      "DELIVERY_WINDOW_SOON", "GPS_STALE", "OTHER" }

ExceptionLike(code) == [code |-> code, dueAtISO |-> NoISO]

CodeLists(n) == UNION { [1..k -> DeriveCodes] : k \in 0..n }

ExceptionLists(n) ==
    { [i \in DOMAIN cs |-> ExceptionLike(cs[i])] : cs \in CodeLists(n) }

DeriveLoadWithPhones(loadId, exceptions, carrierPhone, driverPhone) ==
    [ loadId |-> loadId, carrierPhone |-> carrierPhone, driverPhone |-> driverPhone,
      exceptions |-> exceptions ]

DeriveLoad(loadId, exceptions) ==
    DeriveLoadWithPhones(loadId, exceptions, MockCarrierPhone, MockDriverPhone)

\* a phone field: missing, empty, without a digit, a lone "+", or a formatted number
PhoneInputs ==
    { Undefined, Str(<<>>), Str(<<"n", "/", "a">>), Str(<<"+">>),
      Str(<<" ", "(", "5", "0", "3", ")", " ", "5", "5", "5", "-", "0", "1">>) }

\* one load with a CALL rule or a TEXT rule and every pair of phone fields
PhoneLoadInputs ==
    { <<DeriveLoadWithPhones("L1", <<ExceptionLike(c)>>, cp, dp)>> :
        c \in {"NO_GPS", "DELIVERY_LATE"}, cp \in PhoneInputs, dp \in PhoneInputs }

SecondLoads ==
    { DeriveLoad("L2", <<>>),
      DeriveLoad("L2", <<ExceptionLike("NO_GPS")>>),
      DeriveLoad("L2", <<ExceptionLike("DELIVERY_WINDOW_SOON"), ExceptionLike("PICKUP_LATE")>>) }

\* exceptions carrying a due time, missing or present
DueInputs == {NoISO, toISOString(EvalBase + hours(1)), toISOString(EvalBase + hours(3))}

OrderingProfiles ==
    { <<[code |-> c, dueAtISO |-> d]>> :
        c \in {"NO_GPS", "PICKUP_WINDOW_SOON", "DELIVERY_LATE"}, d \in DueInputs }

\* two or three loads with distinct ids in any order, one exception each
OrderingInputs ==
    UNION { { [i \in 1..n |-> DeriveLoad(ids[i], ex[i])] :
                ids \in {f \in [1..n -> {"L1", "L2", "L3"}] :
                            \A i, j \in 1..n : f[i] = f[j] => i = j},
                ex \in [1..n -> OrderingProfiles] } : n \in 2..3 }

DeriveInputs ==
    { <<DeriveLoad("L1", ex)>> : ex \in ExceptionLists(MaxExc) }
        \cup { <<DeriveLoad("L1", ex), l2>> : ex \in ExceptionLists(MaxExc), l2 \in SecondLoads }
        \cup OrderingInputs
        \cup PhoneLoadInputs

DeriveNowInputs == {toISOString(EvalBase), toISOString(EvalBase + MINUTE)}

InitDerive ==
    /\ pc = "derive-args"
    /\ deriveLoads \in DeriveInputs
    /\ deriveNowISO \in DeriveNowInputs
    /\ deriveOut = <<>>
    /\ EvalIdle /\ DiffIdle /\ StoreIdle /\ BatchIdle /\ StorageIdle /\ SearchIdle

Derive ==
    /\ pc = "derive-args"
    /\ deriveOut' = deriveActions(deriveLoads, deriveNowISO)
    /\ pc' = "derive-done"
    /\ UNCHANGED <<deriveLoads, deriveNowISO, evalVars, diffVars, storeVars, batchVars, storageVars, searchVars>>

NextDerive == Derive

SpecDerive == InitDerive /\ [][NextDerive]_vars

-----------------------------------------------------------------------------
(* Inputs of the differ: evaluated loads *)

DiffIds == {"L1", "L2"}

FarStart == toISOString(EvalBase + hours(30))
FarEnd == toISOString(EvalBase + hours(32))

\* raw loads that evaluate, at EvalBase, to: green; yellow [GPS_STALE]; yellow
\* [GPS_STALE, PICKUP_WINDOW_SOON]; red [NO_GPS]; red [PICKUP_LATE, GPS_STALE]
DiffLoads(id) ==
    { Load(id, 10, FarStart, FarEnd, FarStart, FarEnd),
      Load(id, 60, FarStart, FarEnd, FarStart, FarEnd),
      Load(id, 60, toISOString(EvalBase + hours(1)), FarEnd, FarStart, FarEnd),
      Load(id, NULL, FarStart, FarEnd, FarStart, FarEnd),
      Load(id, 121, toISOString(EvalBase - hours(4)), toISOString(EvalBase - hours(2)),
           FarStart, FarEnd) }

\* what evaluateLoad returns for them
EvaluatedShapes(id) == {evaluateLoad(l, EvalBase) : l \in DiffLoads(id)}

\* any status with any exception list, consistent or not
AnyShapes(id) ==
    { [e EXCEPT !.computedStatus = st] :
        e \in EvaluatedShapes(id), st \in {"green", "yellow", "red"} }

\* the lists holding at most one load per id, in id order
ListsOver(Shapes(_)) ==
    {<<>>} \cup { <<e>> : e \in Shapes("L1") \cup Shapes("L2") }
           \cup { <<e1, e2>> : e1 \in Shapes("L1"), e2 \in Shapes("L2") }

DiffLists == ListsOver(EvaluatedShapes)
AnyLists == ListsOver(AnyShapes)

CreatedAtInputs == {toISOString(EvalBase + 5), toISOString(EvalBase + MINUTE)}

-----------------------------------------------------------------------------
(* SpecFirstRun: diffNotifications with an empty previous map *)

InitFirstRun ==
    /\ pc = "diff-args"
    /\ prevMap = EmptyMap
    /\ current \in AnyLists
    /\ codeChangeOpt \in BOOLEAN
    /\ prevCurrent = <<>>
    /\ notifications = <<>>
    /\ snapshots = EmptyMap
    /\ seenBefore = {}
    /\ EvalIdle /\ DeriveIdle /\ StoreIdle /\ BatchIdle /\ StorageIdle /\ SearchIdle

FirstDiff ==
    /\ pc = "diff-args"
    /\ \E createdAtISO \in CreatedAtInputs :
           LET r == diffNotifications(prevMap, current, createdAtISO, codeChangeOpt) IN
           /\ notifications' = r.notifications
           /\ snapshots' = r.next
    /\ pc' = "diffed"
    /\ UNCHANGED <<prevMap, current, prevCurrent, codeChangeOpt, seenBefore,
                   evalVars, deriveVars, storeVars, batchVars, storageVars, searchVars>>

NextFirstRun == FirstDiff

SpecFirstRun == InitFirstRun /\ [][NextFirstRun]_vars

-----------------------------------------------------------------------------
(* SpecDiff: a chain of diffNotifications calls, each fed the map the last one returned *)

InitDiff ==
    /\ pc = "diff-start"
    /\ DiffIdle
    /\ EvalIdle /\ DeriveIdle /\ StoreIdle /\ BatchIdle /\ StorageIdle /\ SearchIdle

\* { notifications, next } = diffNotifications(snapshotsRef.current, evaluatedAll, ...);
\* snapshotsRef.current = next
DiffCall ==
    /\ \E cur \in DiffLists, opt \in BOOLEAN :
           LET r == diffNotifications(snapshots, cur, toISOString(EvalBase + 5), opt) IN
           /\ prevMap' = snapshots
           /\ prevCurrent' = current
           /\ seenBefore' = seenBefore \cup {current[i].id : i \in DOMAIN current}
           /\ current' = cur
           /\ codeChangeOpt' = opt
           /\ notifications' = r.notifications
           /\ snapshots' = r.next
    /\ pc' = "diffed"
    /\ UNCHANGED <<evalVars, deriveVars, storeVars, batchVars, storageVars, searchVars>>

NextDiff == DiffCall

SpecDiff == InitDiff /\ [][NextDiff]_vars

-----------------------------------------------------------------------------
(* Spec: the persisted action state under overlay ticks and the Done / Snooze / Reopen   *)
(* mutators, with the wall clock advancing in between                                    *)

MaxTicks == 1       \* clock advances in a run

\* 23:30:00.000 of day 0: a 30 minute snooze ends at 00:00:00.000 of day 1
ClockStart == 47 * 30 * MINUTE

\* the clock moves by the snooze length, or by a millisecond less
ClockSteps == {30 * MINUTE - 1, 30 * MINUTE}

\* the second load always lacks GPS; the first has no exception, lacks GPS, or is late
StoreLoadInputs ==
    { << DeriveLoad("L1", e1), DeriveLoad("L2", <<ExceptionLike("NO_GPS")>>) >> :
        e1 \in { <<>>, <<ExceptionLike("NO_GPS")>>, <<ExceptionLike("PICKUP_LATE")>> } }

Restrict(f, keys) == [x \in DOMAIN f \cap keys |-> f[x]]

IdsOf(as) == {as[i].id : i \in DOMAIN as}

\* the marks after an overlay over the derived actions d: the status of every entry the
\* call drops is recorded
MarkPruned(marks, state, d) ==
    LET dropped == DOMAIN state \ IdsOf(d) IN
    [id \in DOMAIN marks \cup dropped |-> IF id \in dropped THEN state[id].status ELSE marks[id]]

\* the snoozes still pending: not reopened by the overlay call just made
LiveSnoozes ==
    IF pc = "overlay"
    THEN Restrict(snoozedAt, {x \in DOMAIN snoozedAt :
                                 DateParse(overlayNowISO) < snoozedAt[x] + 30 * MINUTE})
    ELSE snoozedAt

Init ==
    /\ pc = "start"
    /\ actionState = EmptyMap
    /\ clock = ClockStart
    /\ ticks = 0
    /\ derived = <<>>
    /\ overlayNowISO = NoISO
    /\ stateBefore = EmptyMap
    /\ actions = <<>>
    /\ returnedState = EmptyMap
    /\ doneSince = EmptyMap
    /\ snoozedAt = EmptyMap
    /\ prunedMarks = EmptyMap
    /\ EvalIdle /\ DeriveIdle /\ DiffIdle /\ BatchIdle /\ StorageIdle /\ SearchIdle

AdvanceClock ==
    /\ ticks < MaxTicks
    /\ \E d \in ClockSteps : clock' = clock + d
    /\ ticks' = ticks + 1
    /\ UNCHANGED <<pc, actionState, derived, overlayNowISO, stateBefore, actions,
                   returnedState, doneSince, snoozedAt, prunedMarks, evalVars, deriveVars,
                   diffVars,
                   batchVars, storageVars, searchVars>>

\* openActionsForQueue: derive, then overlayActionState(derived, nowISO), which loads the
\* persisted map and saves the pruned one.  nowISO is the dashboard's `now`: the clock at a
\* timer tick, or the `now` of the last run when a click forces a re-run.
OverlayTick ==
    /\ \E input \in StoreLoadInputs,
          nowISO \in {toISOString(clock)} \cup ({overlayNowISO} \ {NoISO}) :
           LET d == deriveActions(input, nowISO)
               r == overlayActionState(actionState, d, nowISO)
           IN  /\ derived' = d
               /\ overlayNowISO' = nowISO
               /\ stateBefore' = actionState
               /\ actionState' = r.state
               /\ returnedState' = r.state
               /\ actions' = r.actions
               /\ doneSince' = Restrict(doneSince, IdsOf(d))
               /\ snoozedAt' = Restrict(LiveSnoozes, IdsOf(d))
    /\ pc' = "overlay"
    /\ UNCHANGED <<prunedMarks, clock, ticks, evalVars, deriveVars, diffVars,
                   batchVars, storageVars, searchVars>>

\* the actions the Action Queue shows: the OPEN ones of the last overlay
OpenInQueue == {actions[i].id : i \in {k \in DOMAIN actions : actions[k].status = "OPEN"}}

\* handleActionDone on a queued action: setActionDone(a.id, clickISO), then the bump
\* re-runs the overlay over the same derived actions with the same `now`
HandleActionDone ==
    /\ \E id \in OpenInQueue :
           LET clickISO == toISOString(clock)
               written == setActionDone(actionState, id, clickISO)
               r == overlayActionState(written, derived, overlayNowISO)
           IN  /\ stateBefore' = written
               /\ actionState' = r.state
               /\ returnedState' = r.state
               /\ actions' = r.actions
               /\ doneSince' = Put(doneSince, id, Entry("DONE", NoISO, clickISO))
               /\ snoozedAt' = Restrict(LiveSnoozes, DOMAIN snoozedAt \ {id})
    /\ pc' = "overlay"
    /\ UNCHANGED <<prunedMarks, clock, ticks, derived, overlayNowISO, evalVars, deriveVars, diffVars,
                   batchVars, storageVars, searchVars>>

\* handleActionSnooze30m on a queued action: snoozeAction30m(a.id, clickISO), then the
\* bump re-runs the overlay
HandleActionSnooze30m ==
    /\ \E id \in OpenInQueue :
           LET clickISO == toISOString(clock)
               written == snoozeAction30m(actionState, id, clickISO)
               r == overlayActionState(written, derived, overlayNowISO)
           IN  /\ stateBefore' = written
               /\ actionState' = r.state
               /\ returnedState' = r.state
               /\ actions' = r.actions
               /\ doneSince' = Restrict(doneSince, DOMAIN doneSince \ {id})
               /\ snoozedAt' = Put(LiveSnoozes, id, clock)
    /\ pc' = "overlay"
    /\ UNCHANGED <<prunedMarks, clock, ticks, derived, overlayNowISO, evalVars, deriveVars, diffVars,
                   batchVars, storageVars, searchVars>>

\* reopenAction(actionId, nowISO) on an action the last overlay returned; the store
\* exports it, no handler of the dashboard calls it
ReopenAction ==
    /\ \E id \in IdsOf(actions) :
           /\ actionState' = reopenAction(actionState, id, toISOString(clock))
           /\ doneSince' = Restrict(doneSince, DOMAIN doneSince \ {id})
           /\ snoozedAt' = Restrict(LiveSnoozes, DOMAIN snoozedAt \ {id})
    /\ pc' = "reopened"
    /\ UNCHANGED <<prunedMarks, clock, ticks, derived, overlayNowISO, stateBefore, actions, returnedState,
                   evalVars, deriveVars, diffVars,
                   batchVars, storageVars, searchVars>>

Next ==
    AdvanceClock \/ OverlayTick \/ HandleActionDone \/ HandleActionSnooze30m \/ ReopenAction

Spec == Init /\ [][Next]_vars

-----------------------------------------------------------------------------
(* SpecBatch: a batch of loads through evaluateAllLoads and sortNeedsAttention *)

MaxBatch == 2       \* loads in a batch

BatchIds == {IdOrder[i] : i \in 1..MaxBatch}

BatchNowInput == EvalBase

\* <<lastGpsMinutesAgo, pickup start, pickup end, delivery start, delivery end>> of loads
\* that evaluate, at EvalBase, to: green; red [NO_GPS]; red [NO_GPS] with unparsable
\* windows; red [PICKUP_LATE] ended 2 h ago; red [PICKUP_LATE] ended 1 ms ago; red
\* [DELIVERY_LATE, GPS_STALE]; yellow [GPS_STALE]; yellow [PICKUP_WINDOW_SOON]; yellow
\* [DELIVERY_WINDOW_SOON] with a missing delivery end
BatchProfiles ==
    { <<59, FarStart, FarEnd, FarStart, FarEnd>>,
      <<NULL, FarStart, FarEnd, toISOString(EvalBase + hours(5)), FarEnd>>,
      <<NULL, BadISO, BadISO, BadISO, BadISO>>,
      <<59, toISOString(EvalBase - hours(4)), toISOString(EvalBase - hours(2)),
        FarStart, FarEnd>>,
      <<59, toISOString(EvalBase - hours(4)), toISOString(EvalBase - 1), FarStart, FarEnd>>,
      <<121, FarStart, FarEnd, toISOString(EvalBase - hours(3)), toISOString(EvalBase - 1)>>,
      <<60, FarStart, FarEnd, FarStart, FarEnd>>,
      <<59, toISOString(EvalBase + hours(2)), FarEnd, FarStart, FarEnd>>,
      <<59, FarStart, FarEnd, toISOString(EvalBase + hours(4)), NoISO>> }

\* the batches of at most MaxBatch loads with pairwise distinct ids, in any order
BatchInputs ==
    UNION { { [i \in 1..n |-> Load(f[i][1], f[i][2][1], f[i][2][2], f[i][2][3],
                                   f[i][2][4], f[i][2][5])] :
                f \in { g \in [1..n -> BatchIds \X BatchProfiles] :
                          \A i \in 1..n : \A j \in 1..n : i # j => g[i][1] # g[j][1] } } :
            n \in 0..MaxBatch }

InitBatch ==
    /\ pc = "batch"
    /\ batchLoads \in BatchInputs
    /\ batchNow = BatchNowInput
    /\ evaluatedAll = NoResult
    /\ evaluatedPrev = NoResult
    /\ sortIn = <<>>
    /\ sortOut = <<>>
    /\ deadlines = <<>>
    /\ EvalIdle /\ DeriveIdle /\ DiffIdle /\ StoreIdle /\ StorageIdle /\ SearchIdle

\* evaluatedAll = evaluateAllLoads(mockLoads, now); a render with the same `now` calls it
\* again
EvaluateAll ==
    /\ pc \in {"batch", "evaluatedAll"}
    /\ evaluatedPrev' = evaluatedAll
    /\ evaluatedAll' = evaluateAllLoads(batchLoads, batchNow)
    /\ pc' = "evaluatedAll"
    /\ UNCHANGED <<batchLoads, batchNow, sortIn, sortOut, deadlines,
                   evalVars, deriveVars, diffVars, storeVars,
                   storageVars, searchVars>>

\* the call sortNeedsAttention(arg), with the deadline its comparator computes per load
SortCall(arg) ==
    LET out == sortNeedsAttention(arg) IN
    /\ sortIn' = arg
    /\ sortOut' = out
    /\ deadlines' = [i \in DOMAIN out |-> relevantDeadlineMs(out[i])]

\* needsAttention: the red and yellow loads, sorted
NeedsAttention ==
    /\ pc = "evaluatedAll"
    /\ SortCall(SelectSeq(evaluatedAll, LAMBDA l : l.computedStatus \in {"red", "yellow"}))
    /\ pc' = "sorted"
    /\ UNCHANGED <<batchLoads, batchNow, evaluatedAll, evaluatedPrev,
                   evalVars, deriveVars, diffVars, storeVars,
                   storageVars, searchVars>>

\* sortNeedsAttention given every evaluated load, the green ones too
SortAll ==
    /\ pc = "evaluatedAll"
    /\ SortCall(evaluatedAll)
    /\ pc' = "sorted"
    /\ UNCHANGED <<batchLoads, batchNow, evaluatedAll, evaluatedPrev,
                   evalVars, deriveVars, diffVars, storeVars,
                   storageVars, searchVars>>

NextBatch == EvaluateAll \/ NeedsAttention \/ SortAll

SpecBatch == InitBatch /\ [][NextBatch]_vars

-----------------------------------------------------------------------------
(* SpecStorage: the store functions over a localStorage whose keys may be missing or  *)
(* malformed and whose getItem / setItem may throw                                    *)

MaxLog == 2         \* contact log entries added in a run

SampleActionId == mkId("L1", "NO_GPS_CALL")
SampleNowISO == toISOString(EvalBase)
SampleDerived == deriveActions(<<DeriveLoad("L1", <<ExceptionLike("NO_GPS")>>)>>, SampleNowISO)
SampleActionState == setActionDone(EmptyMap, SampleActionId, toISOString(EvalBase - MINUTE))
SampleEvaluated == evaluateLoad(Load("L1", NULL, FarStart, FarEnd, FarStart, FarEnd), EvalBase)
SampleSnapshots == nextSnapshotMap(<<SampleEvaluated>>)
SampleNotifications == pushNotification(SampleEvaluated, SampleNowISO)
\* a log one entry short of the cap, newest first: contacts of L1 and two of L2, one of
\* them the oldest entry
AlmostFullLog ==
    [ i \in 1..(CONTACT_LOG_CAP - 1) |->
        LET l == IF i \in {100, CONTACT_LOG_CAP - 1} THEN "L2" ELSE "L1"
            at == toISOString(EvalBase - i * MINUTE)
        IN  [ id |-> makeContactId(mkId(l, "NO_GPS_CALL"), at),
              actionId |-> mkId(l, "NO_GPS_CALL"), loadId |-> l, method |-> "TEXT",
              atISO |-> at ] ]

SampleLog ==
    << [ id |-> makeContactId(SampleActionId, toISOString(EvalBase - MINUTE)),
         actionId |-> SampleActionId, loadId |-> "L1", method |-> "CALL",
         atISO |-> toISOString(EvalBase - MINUTE) ] >>

\* the ids the mutators are called with: the derived action and one that is not derived
StorageActionIds == {SampleActionId, mkId("L2", "NO_GPS_CALL")}

\* localStorage holding the four keys
StorageWith(snaps, state, log, feed) ==
    [k \in {STORAGE_KEY, ACTION_STATE_KEY, CONTACT_LOG_KEY, NOTIFS_STORAGE_KEY} |->
        CASE k = STORAGE_KEY -> snaps
          [] k = ACTION_STATE_KEY -> state
          [] k = CONTACT_LOG_KEY -> log
          [] k = NOTIFS_STORAGE_KEY -> feed]

\* a fresh, a corrupted or a used browser profile, the used one with a short log or a
\* log one entry short of the cap
StorageInputs ==
    { StorageWith(raw, raw, raw, raw) : raw \in {NoRaw, MalformedJson, stringifyNumber(0)} }
        \cup { StorageWith(stringifyObject(SampleSnapshots), stringifyObject(SampleActionState),
                            stringifyArray(log), stringifyArray(SampleNotifications)) :
                   log \in {SampleLog, AlmostFullLog} }

InitStorage ==
    /\ pc = "storage"
    /\ storageItems \in StorageInputs
    /\ callName = "none"
    /\ callReadThrows = FALSE
    /\ callWriteThrows = FALSE
    /\ callThrew = FALSE
    /\ callValue = <<>>
    /\ callArg = ""
    /\ EvalIdle /\ DeriveIdle /\ DiffIdle /\ StoreIdle /\ BatchIdle /\ SearchIdle

\* the call `name` was made with getItem / setItem throwing or not, with result r
Called(name, arg, readThrows, writeThrows, r) ==
    /\ callName' = name
    /\ callArg' = arg
    /\ callReadThrows' = readThrows
    /\ callWriteThrows' = writeThrows
    /\ callThrew' = r.threw
    /\ callValue' = r.value
    /\ storageItems' = r.items
    /\ pc' = "called"
    /\ UNCHANGED <<evalVars, deriveVars, diffVars, storeVars, batchVars, searchVars>>

LoadSnapshotsCall ==
    \E rt \in BOOLEAN :
        Called("loadSnapshots", "", rt, FALSE, loadSnapshots(storageItems, rt))

SaveSnapshotsCall ==
    \E wt \in BOOLEAN :
        Called("saveSnapshots", "", FALSE, wt, saveSnapshots(storageItems, SampleSnapshots, wt))

OverlayCall ==
    \E rt \in BOOLEAN, wt \in BOOLEAN :
        Called("overlayActionState", "", rt, wt,
               overlayActionStateCall(storageItems, SampleDerived, SampleNowISO, rt, wt))

SetActionDoneCall ==
    \E id \in StorageActionIds, rt \in BOOLEAN, wt \in BOOLEAN :
        Called("setActionDone", id, rt, wt,
               setActionDoneCall(storageItems, id, SampleNowISO, rt, wt))

SnoozeAction30mCall ==
    \E id \in StorageActionIds, rt \in BOOLEAN, wt \in BOOLEAN :
        Called("snoozeAction30m", id, rt, wt,
               snoozeAction30mCall(storageItems, id, SampleNowISO, rt, wt))

ReopenActionCall ==
    \E id \in StorageActionIds, rt \in BOOLEAN, wt \in BOOLEAN :
        Called("reopenAction", id, rt, wt,
               reopenActionCall(storageItems, id, SampleNowISO, rt, wt))

\* the entries of the stored log that were added in this run (atISO not before EvalBase)
AddedInRun(items) ==
    LET log == safeParseArray(items[CONTACT_LOG_KEY]) IN
    Cardinality({i \in DOMAIN log : DateParse(log[i].atISO) >= EvalBase})

\* handleActionContact(a, method) on a derived action:
\* addContactLogEntry({a.id, a.loadId, method, atISO}), atISO the click's instant
AddContactLogEntryCall ==
    /\ AddedInRun(storageItems) < MaxLog
    /\ \E i \in DOMAIN SampleDerived, rt \in BOOLEAN, wt \in BOOLEAN :
           LET a == SampleDerived[i] IN
           Called("addContactLogEntry", a.id, rt, wt,
                  addContactLogEntry(storageItems, a.id, a.loadId, "CALL",
                                     toISOString(EvalBase + 1000 * AddedInRun(storageItems)),
                                     rt, wt))

GetLastContactForLoadCall ==
    \E l \in {"L1", "L2"}, rt \in BOOLEAN :
        Called("getLastContactForLoad", l, rt, FALSE,
               getLastContactForLoad(storageItems, l, rt))

GetLastContactForActionCall ==
    \E id \in StorageActionIds, rt \in BOOLEAN :
        Called("getLastContactForAction", id, rt, FALSE,
               getLastContactForAction(storageItems, id, rt))

\* Array.isArray(persistedNotifs) ? persistedNotifs : [] over what loadJson returned
persistedNotifs(items, readThrows) ==
    LET r == loadJson(items, NOTIFS_STORAGE_KEY, <<>>, readThrows)
        raw == items[NOTIFS_STORAGE_KEY]
        isArray == readThrows \/ ~IsJson(raw) \/ JsonKind(raw) = "array"
    IN  Returned(IF isArray THEN r.value ELSE <<>>, r.items)

FeedLoadCall ==
    \E rt \in BOOLEAN :
        Called("loadJson", "", rt, FALSE, persistedNotifs(storageItems, rt))

FeedSaveCall ==
    \E wt \in BOOLEAN :
        Called("saveJson", "", FALSE, wt,
               saveJson(storageItems, NOTIFS_STORAGE_KEY, SampleNotifications, wt))

NextStorage ==
    \/ LoadSnapshotsCall \/ SaveSnapshotsCall \/ OverlayCall \/ SetActionDoneCall
    \/ SnoozeAction30mCall \/ ReopenActionCall \/ AddContactLogEntryCall
    \/ GetLastContactForLoadCall \/ GetLastContactForActionCall
    \/ FeedLoadCall \/ FeedSaveCall

SpecStorage == InitStorage /\ [][NextStorage]_vars

-----------------------------------------------------------------------------
(* SpecSearch: the dashboard over two loads that keep their exceptions, with the      *)
(* search box, the 60 s timer and the Done / Snooze buttons                           *)

\* L1 has no GPS; L2's pickup window ended two hours before the first render
SearchLoads ==
    << Load("L1", NULL, FarStart, FarEnd, FarStart, FarEnd),
       Load("L2", 10, toISOString(EvalBase - hours(4)), toISOString(EvalBase - hours(2)),
            FarStart, FarEnd) >>

SearchInputs ==
    { <<>>, <<" ">>, <<"l", "1">>, <<" ", "T", "A", "C", "O">>, <<"z", "z">> }

\* evaluated (the loads matching the search) and needsAttention's derived actions
RenderQueue(all, q, nowMs) ==
    deriveActions(actionInputs(SelectSeq(all, LAMBDA l : matchesSearch(l.load, q))),
                  toISOString(nowMs))

\* the render after a state change: evaluatedAll, the derived actions, and their overlay,
\* which saves the map
Rendered(state, marks, q, nowMs) ==
    /\ evaluatedAll' = evaluateAllLoads(SearchLoads, nowMs)
    /\ derived' = RenderQueue(evaluatedAll', q, nowMs)
    /\ overlayNowISO' = toISOString(nowMs)
    /\ stateBefore' = state
    /\ prunedMarks' = MarkPruned(marks, state, derived')
    /\ actionState' = overlayActionState(state, derived', overlayNowISO').state
    /\ returnedState' = actionState'
    /\ actions' = overlayActionState(state, derived', overlayNowISO').actions
    /\ pc' = "overlay"
    /\ UNCHANGED <<batchLoads, batchNow, evaluatedPrev, sortIn, sortOut, deadlines>>
    /\ UNCHANGED <<evalVars, deriveVars, diffVars, storageVars>>

\* before mount: an empty store, an empty search box, no action derived yet
InitSearch ==
    /\ pc = "start"
    /\ search = <<>>
    /\ sessions = <<>>
    /\ clock = EvalBase
    /\ ticks = 0
    /\ derived = <<>>
    /\ overlayNowISO = NoISO
    /\ stateBefore = EmptyMap
    /\ actionState = EmptyMap
    /\ returnedState = EmptyMap
    /\ actions = <<>>
    /\ doneSince = EmptyMap
    /\ snoozedAt = EmptyMap
    /\ prunedMarks = EmptyMap
    /\ EvalIdle /\ DeriveIdle /\ DiffIdle /\ BatchIdle /\ StorageIdle

\* setMounted(true) and the first render
Mount ==
    /\ pc = "start"
    /\ Rendered(actionState, prunedMarks, search, clock)
    /\ UNCHANGED <<search, sessions, clock, ticks, doneSince, snoozedAt>>

\* the user edits the search box: setSearch(q) and the render that follows
EditSearch ==
    /\ pc = "overlay"
    /\ \E q \in SearchInputs \ {search} :
           /\ search' = q
           /\ Rendered(actionState, prunedMarks, q, clock)
    /\ UNCHANGED <<sessions, clock, ticks, doneSince, snoozedAt>>

\* the 60 s timer: setNow(new Date()) and the render that follows
TimerTick ==
    /\ pc = "overlay"
    /\ ticks < MaxTicks
    /\ clock' = clock + 60000
    /\ ticks' = ticks + 1
    /\ Rendered(actionState, prunedMarks, search, clock + 60000)
    /\ UNCHANGED <<search, sessions, doneSince, snoozedAt>>

\* Done on a queued action: setActionDone(a.id, clickISO), the bump and the render
ClickDone ==
    /\ \E id \in OpenInQueue :
           /\ Rendered(setActionDone(actionState, id, toISOString(clock)),
                       Restrict(prunedMarks, DOMAIN prunedMarks \ {id}), search, clock)
           /\ doneSince' = Put(doneSince, id, Entry("DONE", NoISO, toISOString(clock)))
           /\ snoozedAt' = Restrict(snoozedAt, DOMAIN snoozedAt \ {id})
    /\ UNCHANGED <<search, sessions, clock, ticks>>

\* Snooze 30m on a queued action: snoozeAction30m(a.id, clickISO), the bump and the render
ClickSnooze30m ==
    /\ \E id \in OpenInQueue :
           /\ Rendered(snoozeAction30m(actionState, id, toISOString(clock)),
                       Restrict(prunedMarks, DOMAIN prunedMarks \ {id}), search, clock)
           /\ doneSince' = Restrict(doneSince, DOMAIN doneSince \ {id})
           /\ snoozedAt' = Put(snoozedAt, id, clock)
    /\ UNCHANGED <<search, sessions, clock, ticks>>

NextSearch == Mount \/ EditSearch \/ TimerTick \/ ClickDone \/ ClickSnooze30m

SpecSearch == InitSearch /\ [][NextSearch]_vars

-----------------------------------------------------------------------------
(* SpecShared: two browser sessions of the dashboard on one origin share localStorage. *)
(* A store call is loadActionState() (getItem) and, later, saveActionState() (setItem); *)
(* nothing holds the storage between the two, so the other session's getItem and       *)
(* setItem may fall between them.                                                      *)

Sessions == {"A", "B"}

\* both sessions derive the same action, at the same instant
SharedDerived == deriveActions(<<DeriveLoad("L1", <<ExceptionLike("NO_GPS")>>)>>, SampleNowISO)

SharedIds == {SharedDerived[i].id : i \in DOMAIN SharedDerived}

\* a session outside any store call; returned is what its last overlay returned
\* (id -> status), sawDone and sawSnoozed the marks that were in force when that overlay
\* read the store
IdleSession(returned, sawDone, sawSnoozed) ==
    [ at |-> "idle", call |-> "", actionId |-> "", state |-> EmptyMap,
      returned |-> returned, sawDone |-> sawDone, sawSnoozed |-> sawSnoozed ]

\* const state = loadActionState(): the session holds the map it read
AfterLoad(s, call, actionId) ==
    [sessions EXCEPT ![s] =
        [ at |-> "loaded", call |-> call, actionId |-> actionId, state |-> actionState,
          returned |-> sessions[s].returned,
          sawDone |-> IF call = "overlayActionState" THEN DOMAIN doneSince
                      ELSE sessions[s].sawDone,
          sawSnoozed |-> IF call = "overlayActionState" THEN DOMAIN snoozedAt
                         ELSE sessions[s].sawSnoozed ]]

InitShared ==
    /\ pc = "shared"
    /\ sessions = [s \in Sessions |-> IdleSession(EmptyMap, {}, {})]
    /\ actionState = EmptyMap
    /\ clock = EvalBase
    /\ ticks = 0
    /\ derived = SharedDerived
    /\ overlayNowISO = SampleNowISO
    /\ stateBefore = EmptyMap
    /\ actions = <<>>
    /\ returnedState = EmptyMap
    /\ doneSince = EmptyMap
    /\ snoozedAt = EmptyMap
    /\ prunedMarks = EmptyMap
    /\ search = <<>>
    /\ EvalIdle /\ DeriveIdle /\ DiffIdle /\ BatchIdle /\ StorageIdle

SharedUnchanged ==
    UNCHANGED <<pc, search, clock, ticks, derived, overlayNowISO, stateBefore, actions,
                prunedMarks, evalVars, deriveVars, diffVars, batchVars, storageVars>>

\* overlayActionState, up to and including loadActionState()
OverlayLoad ==
    /\ \E s \in Sessions :
           /\ sessions[s].at = "idle"
           /\ sessions' = AfterLoad(s, "overlayActionState", "")
    /\ UNCHANGED <<actionState, returnedState, doneSince, snoozedAt>>
    /\ SharedUnchanged

\* overlayActionState from the prune to saveActionState(pruned) and the return
OverlaySave ==
    /\ \E s \in Sessions :
           /\ sessions[s].at = "loaded"
           /\ sessions[s].call = "overlayActionState"
           /\ LET r == overlayActionState(sessions[s].state, derived, overlayNowISO) IN
              /\ actionState' = r.state
              /\ sessions' =
                     [sessions EXCEPT ![s] =
                         IdleSession([id \in SharedIds |->
                                         LET i == CHOOSE i \in DOMAIN r.actions :
                                                      r.actions[i].id = id
                                         IN  r.actions[i].status],
                                     sessions[s].sawDone, sessions[s].sawSnoozed)]
              /\ returnedState' = r.state
    /\ UNCHANGED <<doneSince, snoozedAt>>
    /\ SharedUnchanged

\* setActionDone / snoozeAction30m, up to and including loadActionState()
MutatorLoad ==
    /\ \E s \in Sessions, call \in {"setActionDone", "snoozeAction30m"}, id \in SharedIds :
           /\ sessions[s].at = "idle"
           /\ sessions' = AfterLoad(s, call, id)
    /\ UNCHANGED <<actionState, returnedState, doneSince, snoozedAt>>
    /\ SharedUnchanged

\* setActionDone: state[actionId] = {DONE, nowISO}; saveActionState(state)
SetActionDoneSave ==
    /\ \E s \in Sessions :
           /\ sessions[s].at = "loaded"
           /\ sessions[s].call = "setActionDone"
           /\ LET id == sessions[s].actionId
                  next == setActionDone(sessions[s].state, id, toISOString(clock))
              IN  /\ actionState' = next
                  /\ sessions' =
                         [sessions EXCEPT ![s] =
                             IdleSession(sessions[s].returned,
                                         sessions[s].sawDone, sessions[s].sawSnoozed)]
                  /\ returnedState' = next
                  /\ doneSince' = Put(doneSince, id, next[id])
                  /\ snoozedAt' = Restrict(snoozedAt, DOMAIN snoozedAt \ {id})
    /\ SharedUnchanged

\* snoozeAction30m: state[actionId] = {SNOOZED, nowISO + 30 min, nowISO}; saveActionState
SnoozeAction30mSave ==
    /\ \E s \in Sessions :
           /\ sessions[s].at = "loaded"
           /\ sessions[s].call = "snoozeAction30m"
           /\ LET id == sessions[s].actionId
                  next == snoozeAction30m(sessions[s].state, id, toISOString(clock))
              IN  /\ actionState' = next
                  /\ sessions' =
                         [sessions EXCEPT ![s] =
                             IdleSession(sessions[s].returned,
                                         sessions[s].sawDone, sessions[s].sawSnoozed)]
                  /\ returnedState' = next
                  /\ doneSince' = Restrict(doneSince, DOMAIN doneSince \ {id})
                  /\ snoozedAt' = Put(snoozedAt, id, clock)
    /\ SharedUnchanged

NextShared ==
    OverlayLoad \/ OverlaySave \/ MutatorLoad \/ SetActionDoneSave \/ SnoozeAction30mSave

SpecShared == InitShared /\ [][NextShared]_vars

-----------------------------------------------------------------------------
(* SpecSnooze: one dashboard whose load keeps its exception, so the same action is      *)
(* derived at every render, under the 60 s interval timer.  The timer keeps firing      *)
(* while the dashboard is mounted: the mount and the tick are weakly fair, the clicks   *)
(* are not.                                                                             *)

MaxMinutes == 32    \* timer ticks in a run

LiveId == mkId("L1", "NO_GPS_CALL")

\* a click falls on a timer tick or a millisecond after it
ClickOffsets == {0, 1}

\* the render: the action derived at nowMs and its overlay over the map `state`
LiveRendered(state, nowMs) ==
    /\ derived' = deriveActions(<<DeriveLoad("L1", <<ExceptionLike("NO_GPS")>>)>>,
                                toISOString(nowMs))
    /\ overlayNowISO' = toISOString(nowMs)
    /\ stateBefore' = state
    /\ actionState' = overlayActionState(state, derived', overlayNowISO').state
    /\ returnedState' = actionState'
    /\ actions' = overlayActionState(state, derived', overlayNowISO').actions
    /\ pc' = "overlay"
    /\ UNCHANGED <<prunedMarks, evalVars, deriveVars, diffVars, batchVars, storageVars,
                   searchVars>>

InitSnooze ==
    /\ pc = "start"
    /\ actionState = EmptyMap
    /\ clock = ClockStart
    /\ ticks = 0
    /\ derived = <<>>
    /\ overlayNowISO = NoISO
    /\ stateBefore = EmptyMap
    /\ actions = <<>>
    /\ returnedState = EmptyMap
    /\ doneSince = EmptyMap
    /\ snoozedAt = EmptyMap
    /\ prunedMarks = EmptyMap
    /\ EvalIdle /\ DeriveIdle /\ DiffIdle /\ BatchIdle /\ StorageIdle /\ SearchIdle

\* setMounted(true) and the first render
LiveMount ==
    /\ pc = "start"
    /\ LiveRendered(actionState, clock)
    /\ UNCHANGED <<clock, ticks, doneSince, snoozedAt>>

\* the interval callback setNow(new Date()), 60 s after the last one, and the render
LiveTick ==
    /\ pc = "overlay"
    /\ ticks < MaxMinutes
    /\ clock' = clock + 60000
    /\ ticks' = ticks + 1
    /\ LiveRendered(actionState, clock + 60000)
    /\ UNCHANGED <<doneSince, snoozedAt>>

\* handleActionSnooze30m on the queued action, early enough for the run to hold the 31
\* ticks that follow: snoozeAction30m(a.id, clickISO), the bump and the render
LiveSnooze30m ==
    /\ pc = "overlay"
    /\ ticks + 31 <= MaxMinutes
    /\ LiveId \in OpenInQueue
    /\ \E d \in ClickOffsets :
           /\ LiveRendered(snoozeAction30m(actionState, LiveId, toISOString(clock + d)),
                           DateParse(overlayNowISO))
           /\ snoozedAt' = Put(snoozedAt, LiveId, clock + d)
    /\ doneSince' = Restrict(doneSince, DOMAIN doneSince \ {LiveId})
    /\ UNCHANGED <<clock, ticks>>

\* handleActionDone on the queued action: setActionDone(a.id, clickISO), bump, render
LiveDone ==
    /\ pc = "overlay"
    /\ LiveId \in OpenInQueue
    /\ \E d \in ClickOffsets :
           /\ LiveRendered(setActionDone(actionState, LiveId, toISOString(clock + d)),
                           DateParse(overlayNowISO))
           /\ doneSince' = Put(doneSince, LiveId, Entry("DONE", NoISO, toISOString(clock + d)))
    /\ snoozedAt' = Restrict(snoozedAt, DOMAIN snoozedAt \ {LiveId})
    /\ UNCHANGED <<clock, ticks>>

NextSnooze == LiveMount \/ LiveTick \/ LiveSnooze30m \/ LiveDone

SpecSnooze ==
    InitSnooze /\ [][NextSnooze]_vars /\ WF_vars(LiveMount) /\ WF_vars(LiveTick)

-----------------------------------------------------------------------------
(* Claims about the notification differ *)

NotificationsOf(loadId) == SelectSeq(notifications, LAMBDA n : n.loadId = loadId)

Escalation(before, after) ==
    <<before, after>> \in {<<"green", "yellow">>, <<"green", "red">>, <<"yellow", "red">>}

\* C1: diffNotifications with an empty previous map returns no notification, whatever the
\* loads' statuses and exceptions, createdAtISO and notifyOnCodeChange.
C1_NoFirstRunSpam ==
    (pc = "diffed" /\ prevMap = EmptyMap) => notifications = <<>>

\* a first run over a red and a yellow load with exceptions, code-change option on
C1_Witness ==
    /\ pc = "diffed"
    /\ prevMap = EmptyMap
    /\ codeChangeOpt
    /\ Len(current) = 2
    /\ current[1].computedStatus = "red" /\ current[1].exceptions # <<>>
    /\ current[2].computedStatus = "yellow" /\ current[2].exceptions # <<>>

\* C2: with notifyOnCodeChange off, a load gets exactly one notification when the previous
\* map holds its id and (previous status, computedStatus) is an escalation, and none
\* otherwise; the notification carries computedStatus and the first exception's code.
C2_TransitionRule ==
    (pc = "diffed" /\ ~codeChangeOpt) =>
        \A i \in DOMAIN current :
            LET e == current[i]
                mine == NotificationsOf(e.id)
            IN  IF e.id \in DOMAIN prevMap /\ Escalation(prevMap[e.id].status, e.computedStatus)
                THEN /\ Len(mine) = 1
                     /\ mine[1].status = e.computedStatus
                     /\ mine[1].exceptionCode = e.exceptions[1].code
                ELSE mine = <<>>

\* one load escalates green -> red while the other de-escalates red -> yellow
C2_Witness ==
    /\ pc = "diffed" /\ ~codeChangeOpt
    /\ DOMAIN prevMap = {"L1", "L2"}
    /\ prevMap["L1"].status = "green" /\ prevMap["L2"].status = "red"
    /\ Len(current) = 2
    /\ current[1].computedStatus = "red" /\ current[2].computedStatus = "yellow"
    /\ Len(notifications) = 1

StatusesAt(list, id) == {list[j].computedStatus : j \in {k \in DOMAIN list : list[k].id = id}}

\* C3: along a chain of calls with default options a load is notified at a tick iff its
\* computedStatus escalates from its status at the preceding tick; re-diffing the same list
\* against the map just returned gives no notification and the same map.
C3_AcrossTicks ==
    (pc = "diffed" /\ ~codeChangeOpt) =>
        /\ \A i \in DOMAIN current :
               LET e == current[i] IN
               (NotificationsOf(e.id) # <<>>) <=>
                   \E before \in StatusesAt(prevCurrent, e.id) :
                       Escalation(before, e.computedStatus)
        /\ current = prevCurrent => (notifications = <<>> /\ snapshots = prevMap)

\* a load that was yellow at the preceding tick is red now, and the other one is unchanged
C3_Witness ==
    /\ pc = "diffed" /\ ~codeChangeOpt
    /\ Len(current) = 2 /\ Len(prevCurrent) = 2
    /\ prevCurrent[1].computedStatus = "yellow" /\ current[1].computedStatus = "red"
    /\ prevCurrent[2] = current[2] /\ current[2].computedStatus = "red"
    /\ Len(notifications) = 1

\* C17: the snapshot map diffNotifications returns has exactly the ids of the current list
\* as keys, whatever the previous map and the options; each entry is the load's
\* computedStatus and its exception codes in ascending order; an id held only by the
\* previous map is dropped, so a load that comes back after a tick without it is a first
\* sighting and is not notified.
C17_SnapshotTotality ==
    pc = "diffed" =>
        /\ DOMAIN snapshots = {current[i].id : i \in DOMAIN current}
        /\ \A i \in DOMAIN current :
               LET e == current[i]
                   snap == snapshots[e.id]
               IN  /\ snap.status = e.computedStatus
                   /\ Len(snap.exceptionCodes) = Len(e.exceptions)
                   /\ Range(snap.exceptionCodes) = {e.exceptions[k].code : k \in DOMAIN e.exceptions}
                   /\ \A k \in DOMAIN snap.exceptionCodes : \A m \in DOMAIN snap.exceptionCodes :
                          k < m => CodeLess(snap.exceptionCodes[k], snap.exceptionCodes[m])
                   /\ e.id \notin DOMAIN prevMap => NotificationsOf(e.id) = <<>>
        /\ \A id \in DOMAIN prevMap :
               id \notin {current[i].id : i \in DOMAIN current} => id \notin DOMAIN snapshots

\* L1 was seen, then missing for a tick, and is back red with two exceptions whose codes the
\* evaluator lists in descending order; the option is on and L2 drops out of the map
C17_Witness ==
    /\ pc = "diffed" /\ codeChangeOpt
    /\ "L1" \in seenBefore
    /\ DOMAIN prevMap = {"L2"}
    /\ Len(current) = 1
    /\ current[1].id = "L1" /\ current[1].computedStatus = "red"
    /\ Len(current[1].exceptions) = 2
    /\ CodeLess(current[1].exceptions[2].code, current[1].exceptions[1].code)
    /\ notifications = <<>>

\* the code-change case of a load: the option is on, the load has a previous snapshot, the
\* step is no escalation, both statuses are non-green and the sorted code lists differ
CodeChange(e) ==
    /\ codeChangeOpt
    /\ e.id \in DOMAIN prevMap
    /\ ~Escalation(prevMap[e.id].status, e.computedStatus)
    /\ prevMap[e.id].status \in {"yellow", "red"}
    /\ e.computedStatus \in {"yellow", "red"}
    /\ prevMap[e.id].exceptionCodes # snapshots[e.id].exceptionCodes

\* C22: with notifyOnCodeChange on, a load in the code-change case gets exactly one
\* notification (carrying its status and primary code); outside the escalations, a load
\* gets none when the code lists are equal, when either status is green or when the option
\* is off; no load gets two notifications in one call.
C22_CodeChangeRule ==
    pc = "diffed" =>
        \A i \in DOMAIN current :
            LET e == current[i]
                mine == NotificationsOf(e.id)
                escalates == e.id \in DOMAIN prevMap
                                 /\ Escalation(prevMap[e.id].status, e.computedStatus)
            IN  /\ Len(mine) <= 1
                /\ CodeChange(e) =>
                       /\ Len(mine) = 1
                       /\ mine[1].status = e.computedStatus
                       /\ mine[1].exceptionCode = e.exceptions[1].code
                /\ (~CodeChange(e) /\ ~escalates) => mine = <<>>

\* option on: L1 goes red [NO_GPS] -> yellow [GPS_STALE] (codes of the same length) and
\* is notified, L2 stays yellow with the same codes and is not
C22_Witness ==
    /\ pc = "diffed" /\ codeChangeOpt
    /\ DOMAIN prevMap = {"L1", "L2"}
    /\ prevMap["L1"].status = "red" /\ prevMap["L1"].exceptionCodes = <<"NO_GPS">>
    /\ prevMap["L2"].status = "yellow"
    /\ Len(current) = 2
    /\ current[1].computedStatus = "yellow" /\ Len(current[1].exceptions) = 1
    /\ current[2].computedStatus = "yellow"
    /\ prevMap["L2"].exceptionCodes = snapshots["L2"].exceptionCodes
    /\ Len(notifications) = 1
    /\ notifications[1].loadId = "L1"

-----------------------------------------------------------------------------
(* Claims about deriveActions and the evaluation pipeline *)

\* the precedence list as the contract states it: code, then the rule it selects
C7_Table ==
    << <<"NO_GPS", "NO_GPS_CALL">>, <<"GPS_STALE_RED", "GPS_STALE_TEXT">>,
       <<"PICKUP_LATE", "PICKUP_STATUS_CALL">>, <<"DELIVERY_LATE", "DELIVERY_ETA_TEXT">>,
       <<"PICKUP_WINDOW_SOON", "PICKUP_WINDOW_CALL">>,
       <<"DELIVERY_WINDOW_SOON", "DELIVERY_WINDOW_TEXT">> >>

ActionsOfLoad(out, loadId) == SelectSeq(out, LAMBDA a : a.loadId = loadId)

CodesOf(exceptions) == {exceptions[i].code : i \in DOMAIN exceptions}

\* C7: deriveActions yields at most one action per load: the action of the first entry of
\* the precedence list whose code is among the load's codes (whatever their order), none
\* when no code is in the list; each action has id loadId__ruleId, status OPEN and
\* createdAtISO = nowISO.
C7_OneActionByPrecedence ==
    pc = "derive-done" =>
        \A i \in DOMAIN deriveLoads :
            LET l == deriveLoads[i]
                mine == ActionsOfLoad(deriveOut, l.loadId)
                hits == {k \in DOMAIN C7_Table : C7_Table[k][1] \in CodesOf(l.exceptions)}
            IN  IF hits = {} THEN mine = <<>>
                ELSE LET first == CHOOSE k \in hits : \A h \in hits : k <= h IN
                     /\ Len(mine) = 1
                     /\ mine[1].ruleId = C7_Table[first][2]
                     /\ mine[1].id = l.loadId \o "__" \o C7_Table[first][2]
                     /\ mine[1].status = "OPEN"
                     /\ mine[1].createdAtISO = deriveNowISO

\* a load listing a lower-precedence code before a higher one has been derived
C7_Witness ==
    /\ pc = "derive-done"
    /\ Len(deriveLoads) = 2
    /\ Len(deriveLoads[1].exceptions) = 2
    /\ deriveLoads[1].exceptions[1].code = "DELIVERY_WINDOW_SOON"
    /\ deriveLoads[1].exceptions[2].code = "GPS_STALE_RED"
    /\ Len(deriveOut) = 2

HasCode(e, code) == \E i \in DOMAIN e.exceptions : e.exceptions[i].code = code

\* C8 (as claimed): in the pipeline a load with GPS present and lastGpsMinutesAgo > 120 gets
\* exactly one action, GPS_STALE_TEXT, whatever else is wrong with it; a load whose only
\* exception is a yellow GPS_STALE gets none.
C8_StaleGpsAction ==
    pc = "derived" =>
        /\ (load.lastGpsMinutesAgo # NULL /\ load.lastGpsMinutesAgo > 120) =>
               /\ Len(derivedOne) = 1
               /\ derivedOne[1].ruleId = "GPS_STALE_TEXT"
        /\ (Len(evaluated.exceptions) = 1 /\ evaluated.exceptions[1].code = "GPS_STALE"
                /\ evaluated.exceptions[1].status = "yellow") => derivedOne = <<>>

\* C9: a load without GPS evaluates to red with NO_GPS first and NO_GPS's detail as the risk
\* reason, and its derived actions are exactly the NO_GPS_CALL call of priority 1.
C9_NoGpsEndToEnd ==
    (pc = "derived" /\ load.lastGpsMinutesAgo = NULL) =>
        /\ evaluated.computedStatus = "red"
        /\ evaluated.exceptions[1].code = "NO_GPS"
        /\ evaluated.computedRiskReason = <<"No GPS data received for this load.", <<>> >>
        /\ Len(derivedOne) = 1
        /\ derivedOne[1].ruleId = "NO_GPS_CALL"
        /\ derivedOne[1].actionType = "CALL"
        /\ derivedOne[1].priority = 1

\* no GPS and a pickup window that ended two hours ago
C9_Witness ==
    /\ pc = "derived"
    /\ load.lastGpsMinutesAgo = NULL
    /\ load.pickupWindowEndISO = toISOString(now - hours(2))
    /\ HasCode(evaluated, "PICKUP_LATE")
    /\ Len(evaluated.exceptions) >= 2

\* C10: computedStatus is red iff some exception is red, yellow iff none is red and some is
\* yellow, green iff there is no exception; a green load has no risk reason and the default
\* next action.
C10_StatusFromExceptions ==
    pc \in {"evaluated", "derived"} =>
        LET ex == evaluateRules(load, now)
            anyRed == \E i \in DOMAIN ex : ex[i].status = "red"
            anyYellow == \E i \in DOMAIN ex : ex[i].status = "yellow"
        IN  /\ Range(evaluated.exceptions) = Range(ex)
            /\ evaluated.computedStatus = "red" <=> anyRed
            /\ evaluated.computedStatus = "yellow" <=> (~anyRed /\ anyYellow)
            /\ evaluated.computedStatus = "green" <=> ex = <<>>
            /\ evaluated.computedStatus = "green" =>
                   /\ evaluated.computedRiskReason = NoText
                   /\ evaluated.computedNextAction = "No action required."

\* a load with both a red and a yellow exception has been evaluated
C10_Witness ==
    /\ pc = "evaluated"
    /\ evaluated.computedStatus = "red"
    /\ \E i \in DOMAIN evaluated.exceptions : evaluated.exceptions[i].status = "yellow"

Reverse(s) == [i \in DOMAIN s |-> s[Len(s) + 1 - i]]

\* a comes no later than b by severity (risk first), then score (high first), then code
InExceptionOrder(a, b) ==
    \/ (a.severity = "risk" /\ b.severity = "watch")
    \/ (a.severity = b.severity /\ a.score > b.score)
    \/ (a.severity = b.severity /\ a.score = b.score /\ ~CodeLess(b.code, a.code))

\* C11: evaluateLoad's exceptions are the rules' exceptions ordered by severity (risk before
\* watch), then score descending, then code ascending, and the same list results from the
\* rules' output in reverse order; a non-green load's risk reason and next action are the
\* detail and nextAction of the first exception.
C11_ExceptionOrder ==
    pc \in {"evaluated", "derived"} =>
        LET ex == evaluateRules(load, now)
            out == evaluated.exceptions
        IN  /\ Len(out) = Len(ex)
            /\ Range(out) = Range(ex)
            /\ \A i \in DOMAIN out : \A j \in DOMAIN out :
                   i < j => InExceptionOrder(out[i], out[j])
            /\ sortExceptionsDeterministic(Reverse(ex)) = out
            /\ evaluated.computedStatus # "green" =>
                   /\ out # <<>>
                   /\ evaluated.computedRiskReason = out[1].detail
                   /\ evaluated.computedNextAction = out[1].nextAction

\* the rules raise a watch exception before two risk exceptions, the lower score first
C11_Witness ==
    /\ pc = "evaluated"
    /\ Len(evaluated.exceptions) >= 3
    /\ evaluateRules(load, now)[1].code = "GPS_STALE"
    /\ evaluateRules(load, now)[1].severity = "watch"
    /\ evaluated.exceptions[1].code = "PICKUP_LATE"
    /\ evaluated.exceptions[2].code = "DELIVERY_LATE"
    /\ evaluated.computedRiskReason = evaluated.exceptions[1].detail

\* the exceptions of the evaluated load that carry the code
WithCode(e, code) == {i \in DOMAIN e.exceptions : e.exceptions[i].code = code}

\* C12: NO_GPS (risk/red) is raised iff lastGpsMinutesAgo is null; GPS_STALE is raised only
\* with GPS present: watch/yellow for 60 <= m <= 120, risk/red for m > 120, not for m < 60;
\* the two are never raised together.
C12_GpsRules ==
    pc \in {"evaluated", "derived"} =>
        LET m == load.lastGpsMinutesAgo
            noGps == WithCode(evaluated, "NO_GPS")
            stale == WithCode(evaluated, "GPS_STALE")
        IN  /\ noGps # {} <=> m = NULL
            /\ \A i \in noGps :
                   /\ evaluated.exceptions[i].severity = "risk"
                   /\ evaluated.exceptions[i].status = "red"
            /\ Cardinality(noGps) <= 1 /\ Cardinality(stale) <= 1
            /\ stale # {} <=> (m # NULL /\ m >= 60)
            /\ \A i \in stale :
                   IF m <= 120
                   THEN /\ evaluated.exceptions[i].severity = "watch"
                        /\ evaluated.exceptions[i].status = "yellow"
                   ELSE /\ evaluated.exceptions[i].severity = "risk"
                        /\ evaluated.exceptions[i].status = "red"
            /\ ~(noGps # {} /\ stale # {})

\* GPS last seen exactly 120 minutes ago: still watch/yellow
C12_Witness ==
    /\ pc = "evaluated"
    /\ load.lastGpsMinutesAgo = 120
    /\ \E i \in WithCode(evaluated, "GPS_STALE") : evaluated.exceptions[i].status = "yellow"

\* now is strictly after the instant the ISO string names; never for a missing or
\* unparsable string
StrictlyAfter(nowMs, iso) == IsIso(iso) /\ nowMs > DateParse(iso)

\* C13: PICKUP_LATE (risk/red) is raised iff now is strictly after the pickup window end,
\* DELIVERY_LATE (risk/red) iff now is strictly after the delivery window end; a load whose
\* window end is missing or unparsable is not late.
C13_LateRules ==
    pc \in {"evaluated", "derived"} =>
        LET pl == WithCode(evaluated, "PICKUP_LATE")
            dl == WithCode(evaluated, "DELIVERY_LATE")
        IN  /\ pl # {} <=> StrictlyAfter(now, load.pickupWindowEndISO)
            /\ dl # {} <=> StrictlyAfter(now, load.deliveryWindowEndISO)
            /\ Cardinality(pl) <= 1 /\ Cardinality(dl) <= 1
            /\ \A i \in pl \cup dl :
                   /\ evaluated.exceptions[i].severity = "risk"
                   /\ evaluated.exceptions[i].status = "red"
            /\ load.pickupWindowEndISO \in {NoISO, BadISO} => pl = {}
            /\ load.deliveryWindowEndISO \in {NoISO, BadISO} => dl = {}

\* the delivery window ended a millisecond ago, the pickup window ends exactly now
C13_Witness ==
    /\ pc = "evaluated"
    /\ now = DateParse(load.deliveryWindowEndISO) + 1
    /\ WithCode(evaluated, "DELIVERY_LATE") # {}
    /\ load.pickupWindowEndISO = toISOString(now)
    /\ WithCode(evaluated, "PICKUP_LATE") = {}

\* the instant the ISO string names lies after now, by at most the given milliseconds
StartsSoon(nowMs, iso, withinMs) ==
    /\ IsIso(iso)
    /\ 0 < DateParse(iso) - nowMs
    /\ DateParse(iso) - nowMs <= withinMs

\* C14: PICKUP_WINDOW_SOON (watch/yellow) is raised iff now is not strictly after the pickup
\* window end and 0 < pickup start - now <= 2 hours; DELIVERY_WINDOW_SOON likewise with the
\* delivery window and 4 hours; a load never has the late and the soon exception of the same
\* window, and an unparsable start raises no soon exception.
C14_WindowSoonRules ==
    pc \in {"evaluated", "derived"} =>
        LET ps == WithCode(evaluated, "PICKUP_WINDOW_SOON")
            ds == WithCode(evaluated, "DELIVERY_WINDOW_SOON")
        IN  /\ ps # {} <=> /\ ~StrictlyAfter(now, load.pickupWindowEndISO)
                           /\ StartsSoon(now, load.pickupWindowStartISO, 2 * 3600000)
            /\ ds # {} <=> /\ ~StrictlyAfter(now, load.deliveryWindowEndISO)
                           /\ StartsSoon(now, load.deliveryWindowStartISO, 4 * 3600000)
            /\ Cardinality(ps) <= 1 /\ Cardinality(ds) <= 1
            /\ \A i \in ps \cup ds :
                   /\ evaluated.exceptions[i].severity = "watch"
                   /\ evaluated.exceptions[i].status = "yellow"
            /\ ~(ps # {} /\ WithCode(evaluated, "PICKUP_LATE") # {})
            /\ ~(ds # {} /\ WithCode(evaluated, "DELIVERY_LATE") # {})
            /\ load.pickupWindowStartISO = BadISO => ps = {}
            /\ load.deliveryWindowStartISO = BadISO => ds = {}

\* the pickup window starts exactly 2 hours ahead, the delivery window 4 hours and 2 ms ahead
C14_Witness ==
    /\ pc = "evaluated"
    /\ load.pickupWindowStartISO = toISOString(now + 2 * 3600000)
    /\ WithCode(evaluated, "PICKUP_WINDOW_SOON") # {}
    /\ load.deliveryWindowStartISO = toISOString(now + 4 * 3600000 + 2)
    /\ WithCode(evaluated, "DELIVERY_WINDOW_SOON") = {}
    /\ WithCode(evaluated, "DELIVERY_LATE") = {}

\* a's sort key <priority, dueAtISO or "", createdAtISO> is smaller than b's
KeyBefore(a, b) ==
    \/ a.priority < b.priority
    \/ a.priority = b.priority /\ LexLess(a.dueAtISO, b.dueAtISO)
    \/ /\ a.priority = b.priority
       /\ ~LexLess(a.dueAtISO, b.dueAtISO) /\ ~LexLess(b.dueAtISO, a.dueAtISO)
       /\ LexLess(a.createdAtISO, b.createdAtISO)

\* position of the load in the input of the last deriveActions call
InputPos(loadId) == CHOOSE i \in DOMAIN deriveLoads : deriveLoads[i].loadId = loadId

\* C23: deriveActions returns its actions by priority ascending, then dueAtISO ascending
\* as strings with a missing dueAtISO as the empty string (first), then createdAtISO
\* ascending; actions with equal keys stay in the order of their loads in the input.
C23_ActionOrdering ==
    pc = "derive-done" =>
        \A i, j \in DOMAIN deriveOut :
            i < j =>
                /\ ~KeyBefore(deriveOut[j], deriveOut[i])
                /\ ~KeyBefore(deriveOut[i], deriveOut[j]) =>
                       InputPos(deriveOut[i].loadId) < InputPos(deriveOut[j].loadId)

\* three actions: a priority 2 action given first comes last; of the two priority 1
\* actions the one without dueAtISO, given after the one with, comes first
C23_Witness ==
    /\ pc = "derive-done"
    /\ Len(deriveOut) = 3
    /\ deriveLoads[1].loadId = "L3" /\ deriveLoads[2].loadId = "L1"
    /\ deriveOut[1].loadId = "L2" /\ deriveOut[1].dueAtISO = NoISO
    /\ deriveOut[2].loadId = "L1" /\ deriveOut[2].dueAtISO # NoISO
    /\ deriveOut[2].priority = 1
    /\ deriveOut[3].loadId = "L3" /\ deriveOut[3].priority = 2

\* the phone yields a dialable number: it is present and holds a digit
Dialable(phone) == phone.defined /\ \E i \in DOMAIN phone.chars : phone.chars[i] \in Digits

\* the digits and "+" of a phone, as they appear in a link
LinkNumber(phone) == SelectSeq(phone.chars, LAMBDA c : c \in Digits \cup {"+"})

\* C25 (as claimed): the href of a derived CALL / TEXT action is built from the carrier
\* phone when that phone is dialable and from the driver phone otherwise; it is absent
\* only when neither phone is dialable, and the action is derived all the same.
C25_ContactLinkFallback ==
    pc = "derive-done" =>
        \A i \in DOMAIN deriveLoads :
            LET l == deriveLoads[i]
                mine == ActionsOfLoad(deriveOut, l.loadId)
                phone == IF Dialable(l.carrierPhone) THEN l.carrierPhone ELSE l.driverPhone
            IN  PickedEntry(l.exceptions) # 0 =>
                    /\ Len(mine) = 1
                    /\ mine[1].href.defined <=> Dialable(phone)
                    /\ mine[1].href.defined =>
                           mine[1].href.chars[1] = (IF mine[1].actionType = "CALL"
                                                    THEN "tel:" ELSE "sms:")
                    /\ Dialable(phone) =>
                           SubSeq(mine[1].href.chars, 2, 1 + Len(LinkNumber(phone)))
                               = LinkNumber(phone)

\* an exception's severity and status agree
SeverityMatchesStatus(x) ==
    <<x.severity, x.status>> \in {<<"risk", "red">>, <<"watch", "yellow">>}

\* C30: every exception evaluateRules produces is (risk, red) or (watch, yellow); so for
\* an evaluateLoad result with an exception the primary (first) exception's status is
\* computedStatus, the notification severity derived from computedStatus is the primary
\* exception's severity, and the sorter's top score within status is its score.
C30_SeverityStatusAgree ==
    pc \in {"evaluated", "derived"} =>
        /\ \A x \in Range(evaluateRules(load, now)) : SeverityMatchesStatus(x)
        /\ \A x \in Range(evaluated.exceptions) : SeverityMatchesStatus(x)
        /\ evaluated.exceptions # <<>> =>
               /\ evaluated.exceptions[1].status = evaluated.computedStatus
               /\ primarySeverity(evaluated) = evaluated.exceptions[1].severity
               /\ topScoreWithinStatus(evaluated) = evaluated.exceptions[1].score

\* two red exceptions of different scores and a yellow one on the same load
C30_Witness ==
    /\ pc = "evaluated"
    /\ Len(evaluated.exceptions) >= 3
    /\ evaluated.exceptions[1].status = "red"
    /\ evaluated.exceptions[2].status = "red"
    /\ evaluated.exceptions[2].score < evaluated.exceptions[1].score
    /\ \E i \in DOMAIN evaluated.exceptions : evaluated.exceptions[i].severity = "watch"

-----------------------------------------------------------------------------
(* Claims about the attention sorter and batch evaluation *)

\* the highest score among the load's exceptions of the load's own status, -1 if none
BucketScore(e) ==
    LET scores == {e.exceptions[i].score :
                      i \in {k \in DOMAIN e.exceptions :
                                e.exceptions[k].status = e.computedStatus}}
    IN  IF scores = {} THEN -1 ELSE CHOOSE x \in scores : \A y \in scores : y <= x

RankOf(e) == CASE e.computedStatus = "red" -> 0
               [] e.computedStatus = "yellow" -> 1
               [] OTHER -> 2

\* the orderings of a list
OrderingsOf(s) == {[i \in DOMAIN s |-> s[pi[i]]] : pi \in Permutations(DOMAIN s)}

\* C15: sortNeedsAttention returns a permutation of its argument ordered by status rank
\* (red, yellow, green), then the highest score within the load's status descending, then
\* the relevant deadline ascending, then id ascending; every red load precedes every yellow
\* one, and every ordering of the argument gives the same result.
C15_SortNeedsAttention ==
    pc = "sorted" =>
        /\ Len(sortOut) = Len(sortIn)
        /\ Range(sortOut) = Range(sortIn)
        /\ sortIn \in {evaluatedAll,
                       SelectSeq(evaluatedAll, LAMBDA l : l.computedStatus # "green")}
        /\ \A i \in DOMAIN sortOut : \A j \in DOMAIN sortOut :
               i < j =>
                   LET a == sortOut[i]
                       b == sortOut[j]
                   IN  \/ RankOf(a) < RankOf(b)
                       \/ /\ RankOf(a) = RankOf(b)
                          /\ BucketScore(a) > BucketScore(b)
                       \/ /\ RankOf(a) = RankOf(b)
                          /\ BucketScore(a) = BucketScore(b)
                          /\ deadlines[i] < deadlines[j]
                       \/ /\ RankOf(a) = RankOf(b)
                          /\ BucketScore(a) = BucketScore(b)
                          /\ deadlines[i] = deadlines[j]
                          /\ IdLess(a.id, b.id)
        /\ \A i \in DOMAIN sortOut : \A j \in DOMAIN sortOut :
               (sortOut[i].computedStatus = "red" /\ sortOut[j].computedStatus = "yellow")
                   => i < j
        /\ \A o \in OrderingsOf(sortIn) : sortNeedsAttention(o) = sortOut

\* two loads equal in status, score and deadline, given in descending id order
C15_Witness ==
    /\ pc = "sorted"
    /\ Len(sortOut) = 2
    /\ sortOut[1].computedStatus = sortOut[2].computedStatus
    /\ BucketScore(sortOut[1]) = BucketScore(sortOut[2])
    /\ deadlines[1] = deadlines[2]
    /\ sortIn = <<sortOut[2], sortOut[1]>>

\* the instant an ISO string names, +Infinity when it is missing or unparsable
TimeOrInf(iso) == IF IsIso(iso) THEN DateParse(iso) ELSE INF

\* the exception of a non-empty list that comes first by severity, score, code
PrimaryOf(exceptions) ==
    CHOOSE x \in Range(exceptions) : \A y \in Range(exceptions) : InExceptionOrder(x, y)

SetMin(S) == CHOOSE x \in S : \A y \in S : x <= y

\* the deadline the claim gives a load
DeadlineOf(e) ==
    IF e.exceptions = <<>> THEN INF
    ELSE LET code == PrimaryOf(e.exceptions).code IN
         CASE code = "PICKUP_LATE" -> TimeOrInf(e.load.pickupWindowEndISO)
           [] code = "PICKUP_WINDOW_SOON" -> TimeOrInf(e.load.pickupWindowStartISO)
           [] code = "DELIVERY_LATE" -> TimeOrInf(e.load.deliveryWindowEndISO)
           [] code = "DELIVERY_WINDOW_SOON" -> TimeOrInf(e.load.deliveryWindowStartISO)
           [] code \in {"NO_GPS", "GPS_STALE"} ->
                  SetMin({ TimeOrInf(e.load.pickupWindowStartISO),
                           TimeOrInf(e.load.pickupWindowEndISO),
                           TimeOrInf(e.load.deliveryWindowStartISO),
                           TimeOrInf(e.load.deliveryWindowEndISO) })

\* C16: the sorter's relevant deadline of a load follows its primary exception: PICKUP_LATE
\* -> pickup end, PICKUP_WINDOW_SOON -> pickup start, DELIVERY_LATE -> delivery end,
\* DELIVERY_WINDOW_SOON -> delivery start, NO_GPS / GPS_STALE -> the minimum of the four
\* window instants; a missing or unparsable instant is +Infinity, and so is the deadline of
\* a load without exceptions.
C16_RelevantDeadline ==
    pc = "sorted" =>
        /\ DOMAIN deadlines = DOMAIN sortOut
        /\ \A i \in DOMAIN sortOut : deadlines[i] = DeadlineOf(sortOut[i])

\* a NO_GPS load whose soonest instant is its delivery start, and a NO_GPS load whose
\* windows are all unparsable, sorted after it
C16_Witness ==
    /\ pc = "sorted"
    /\ Len(sortOut) = 2
    /\ sortOut[1].exceptions[1].code = "NO_GPS"
    /\ deadlines[1] = DateParse(sortOut[1].load.deliveryWindowStartISO)
    /\ deadlines[1] < DateParse(sortOut[1].load.pickupWindowStartISO)
    /\ sortOut[2].load.pickupWindowStartISO = BadISO
    /\ deadlines[2] = INF

-----------------------------------------------------------------------------
(* Claims about the dashboard's search box *)

\* the search box is empty or blank, so every load is shown
SearchCleared == Len(trim(search)) = 0

\* C26 (as claimed): editing the search text does not change the persisted state of an
\* action whose load still has the exception.  In SpecSearch both loads keep their
\* exceptions and no snooze runs out, so every action marked DONE or SNOOZED still has
\* that entry, and is absent from the open queue once the search is cleared.
C26_SearchKeepsLifecycle ==
    /\ \A id \in DOMAIN doneSince :
           /\ id \in DOMAIN actionState
           /\ actionState[id].status = "DONE"
           /\ SearchCleared => id \notin OpenInQueue
    /\ \A id \in DOMAIN snoozedAt :
           /\ id \in DOMAIN actionState
           /\ actionState[id].status = "SNOOZED"
           /\ SearchCleared => id \notin OpenInQueue

-----------------------------------------------------------------------------
(* Claims about two sessions on one store *)

\* C27 (as claimed): with two sessions that derive the same actions and whose store calls
\* interleave, (1) the store always holds a map one call wrote in full, (2) a Done or
\* Snooze one session wrote stays in the store until a mutator is called on that id again,
\* and (3) an overlay that read the store after the mark was written returns the action
\* as DONE / SNOOZED.
C27_SharedStore ==
    /\ actionState = returnedState
    /\ \A id \in DOMAIN doneSince :
           id \in DOMAIN actionState /\ actionState[id].status = "DONE"
    /\ \A id \in DOMAIN snoozedAt :
           id \in DOMAIN actionState /\ actionState[id].status = "SNOOZED"
    /\ \A s \in Sessions :
           (sessions[s].at = "idle" /\ sessions[s].returned # EmptyMap) =>
               /\ \A id \in sessions[s].sawDone : sessions[s].returned[id] = "DONE"
               /\ \A id \in sessions[s].sawSnoozed : sessions[s].returned[id] = "SNOOZED"

\* the first part alone: the store holds the map the last saveActionState call was given
SharedStoreWrittenInFull == pc = "shared" => actionState = returnedState

-----------------------------------------------------------------------------
(* Claims about the store functions and localStorage *)

\* the key held no usable JSON when the last call read it (a load call leaves it as it was)
Unreadable(key) == storageItems[key] = NoRaw \/ ~IsJson(storageItems[key])

\* C19 (as claimed): no store function propagates a storage error to its caller, and the
\* snapshot map and the feed read as empty when the key is missing, the JSON is malformed
\* or getItem throws.
C19_GracefulDegradation ==
    pc = "called" =>
        /\ ~callThrew
        /\ (callName = "loadSnapshots" /\ (callReadThrows \/ Unreadable(STORAGE_KEY)))
               => DOMAIN callValue = {}
        /\ (callName = "loadJson" /\ (callReadThrows \/ Unreadable(NOTIFS_STORAGE_KEY)))
               => Len(callValue) = 0

\* the contact log as the store functions read it
StoredLog(items) == safeParseArray(items[CONTACT_LOG_KEY])

\* the first entry of the log satisfying the test, as a sequence of at most one entry
NewestOf(log, matching) ==
    IF matching = {} THEN <<>>
    ELSE <<log[CHOOSE i \in matching : \A j \in matching : i <= j]>>

\* C24: an addContactLogEntry that returns leaves the new entry first, followed by the
\* earlier entries unchanged and in order, cut to 200 entries, and touches no other key;
\* getLastContactForLoad / getLastContactForAction return the first, i.e. most recently
\* added, retained entry of the load / action, or undefined when there is none.
C24_ContactLog ==
    [][ LET before == StoredLog(storageItems)
            after == StoredLog(storageItems')
        IN  /\ (callName' = "addContactLogEntry" /\ ~callThrew') =>
                  /\ Len(after) = Min(Len(before) + 1, 200)
                  /\ after[1].actionId = callArg'
                  /\ after[1].atISO = toISOString(EvalBase + 1000 * AddedInRun(storageItems))
                  /\ \A i \in 2..Len(after) : after[i] = before[i - 1]
                  /\ \A k \in DOMAIN storageItems \ {CONTACT_LOG_KEY} :
                         storageItems'[k] = storageItems[k]
            /\ (callName' = "getLastContactForLoad" /\ ~callThrew') =>
                  callValue' = NewestOf(after, {i \in DOMAIN after : after[i].loadId = callArg'})
            /\ (callName' = "getLastContactForAction" /\ ~callThrew') =>
                  callValue' = NewestOf(after, {i \in DOMAIN after : after[i].actionId = callArg'})
            /\ Len(after) <= 200 ]_vars

\* two adds for L1 on a log one short of the cap: the log is full, the oldest entry (of
\* L2) is gone, and the last contact of L2 is its other entry, now at position 102
C24_Witness ==
    /\ pc = "called"
    /\ callName = "getLastContactForLoad" /\ callArg = "L2" /\ ~callThrew
    /\ Len(callValue) = 1
    /\ callValue[1] = StoredLog(storageItems)[102]
    /\ Len(StoredLog(storageItems)) = 200
    /\ AddedInRun(storageItems) = 2
    /\ StoredLog(storageItems)[1].atISO = toISOString(EvalBase + 1000)
    /\ StoredLog(storageItems)[200].loadId = "L1"

\* the persisted action-state map as the store functions read it
StoredActionState(items) == safeParse(items[ACTION_STATE_KEY])

\* `after` is `before` with the entry of `id` replaced by `entry` and nothing else changed
OnlyEntryWritten(before, after, id, entry) ==
    /\ DOMAIN after = DOMAIN before \cup {id}
    /\ after[id] = entry
    /\ \A other \in DOMAIN before \ {id} : after[other] = before[other]

-----------------------------------------------------------------------------
(* Claims about the action state overlay *)

StatusesOf(as, id) == {as[i].status : i \in {k \in DOMAIN as : as[k].id = id}}

\* C4: once setActionDone(id) was called, every later overlay call (id derived at each of
\* them, no other mutator called on id) returns the action as DONE and leaves the entry
\* setActionDone wrote; every derived action's id is loadId__ruleId.
C4_DoneReattached ==
    pc = "overlay" =>
        /\ \A id \in DOMAIN doneSince :
               /\ StatusesOf(actions, id) = {"DONE"}
               /\ id \in DOMAIN actionState
               /\ actionState[id] = doneSince[id]
               /\ returnedState[id] = doneSince[id]
        /\ \A i \in DOMAIN derived :
               /\ derived[i].id = derived[i].loadId \o "__" \o derived[i].ruleId
               /\ actions[i].id = derived[i].id

\* an action marked DONE before the clock advanced is overlaid again at the new time
C4_Witness ==
    /\ pc = "overlay"
    /\ ticks >= 1
    /\ overlayNowISO = toISOString(clock)
    /\ \E id \in DOMAIN doneSince :
           /\ doneSince[id].updatedAtISO = toISOString(ClockStart)
           /\ id \in DOMAIN stateBefore

C6_Pruning ==
    pc = "overlay" =>
        /\ DOMAIN actionState = DOMAIN stateBefore \cap IdsOf(derived)
        /\ DOMAIN returnedState = DOMAIN stateBefore \cap IdsOf(derived)
        /\ \A i \in DOMAIN derived :
               derived[i].id \notin DOMAIN stateBefore =>
                   /\ actions[i] = derived[i]
                   /\ actions[i].status = "OPEN"
                   /\ derived[i].id \notin DOMAIN actionState

\* one entry dropped, one kept, and one derived action that had no entry
C6_Witness ==
    /\ pc = "overlay"
    /\ DOMAIN stateBefore \ IdsOf(derived) # {}
    /\ DOMAIN stateBefore \cap IdsOf(derived) # {}
    /\ IdsOf(derived) \ DOMAIN stateBefore # {}


\* C20: overlayActionState is idempotent for fixed inputs.  A second call with the same
\* derived actions and the same nowISO, over the map the first call persisted, returns the
\* same actions and persists the same map, also when the first call reopened an expired
\* snooze or pruned entries.
C20_OverlayIdempotent ==
    pc = "overlay" =>
        LET once == overlayActionState(stateBefore, derived, overlayNowISO)
            twice == overlayActionState(once.state, derived, overlayNowISO)
        IN  /\ once.actions = actions
            /\ once.state = actionState
            /\ twice.actions = once.actions
            /\ twice.state = once.state

\* the last overlay reopened an expired snooze and pruned an entry in the same call
C20_Witness ==
    /\ pc = "overlay"
    /\ \E id \in DOMAIN stateBefore \cap IdsOf(derived) :
           /\ SnoozeExpired(stateBefore[id], overlayNowISO)
           /\ actionState[id] = Entry("OPEN", NoISO, overlayNowISO)
    /\ DOMAIN stateBefore \ IdsOf(derived) # {}
    /\ DOMAIN actionState = DOMAIN stateBefore \cap IdsOf(derived)

\* C28: an action whose entry an overlay call pruned (its id was not derived at that call)
\* and which is derived again, with no mutator called on it since, is returned OPEN by the
\* overlay and has no persisted entry, whatever the status of the pruned entry was.
C28_RederivedIsOpen ==
    pc = "overlay" =>
        \A i \in DOMAIN derived :
            derived[i].id \in DOMAIN prunedMarks =>
                /\ actions[i].status = "OPEN"
                /\ derived[i].id \notin DOMAIN actionState
                /\ derived[i].id \notin DOMAIN returnedState

\* an action whose DONE entry was pruned is derived again and returned OPEN, while the
\* SNOOZED entry of the other load's action has been pruned and is not derived yet
C28_Witness ==
    /\ pc = "overlay"
    /\ \E i \in DOMAIN derived :
           /\ derived[i].id \in DOMAIN prunedMarks
           /\ prunedMarks[derived[i].id] = "DONE"
           /\ actions[i].status = "OPEN"
    /\ \E id \in DOMAIN prunedMarks \ IdsOf(derived) : prunedMarks[id] = "SNOOZED"

\* the action was snoozed and no mutator has been called on it since
SnoozePending == LiveId \in DOMAIN snoozedAt

\* the last overlay returned the action as OPEN
ReturnedOpen ==
    pc = "overlay" /\ \E i \in DOMAIN actions : actions[i].id = LiveId /\ actions[i].status = "OPEN"

\* C29: once the action is snoozed, then, with the action derived at every tick and the
\* ticks going on, from some tick on every overlay returns it as OPEN, unless a mutator is
\* called on it again.
C29_SnoozeNotForever == [](SnoozePending => <>[](ReturnedOpen \/ ~SnoozePending))

\* a tick after the one that reopened the snoozed action: the entry is the OPEN entry the
\* reopening tick wrote, and the action is still returned OPEN
C29_Witness ==
    /\ SnoozePending
    /\ ReturnedOpen
    /\ snoozedAt[LiveId] = ClockStart + 1
    /\ DateParse(overlayNowISO) = ClockStart + 32 * MINUTE
    /\ actionState[LiveId] = Entry("OPEN", NoISO, toISOString(ClockStart + 31 * MINUTE))

====
